---- MODULE Spec2Model ----
(***************************************************************************)
(* Fire disaster response pipeline (backend/module3/fire_disaster).        *)
(*                                                                         *)
(* Units.  Coordinates are points on the equator, given as the distance    *)
(* east of longitude 0 in units of 0.01 km; on that great circle the       *)
(* haversine distance of two points is the absolute difference of their    *)
(* coordinates.  Distances and radii are in the same unit, so rounding to  *)
(* one decimal of a kilometre is rounding to a multiple of 10.             *)
(* fire_intensity is given in tenths, displacement_pct in percent,         *)
(* days of supply in tenths of a day.                                      *)
(***************************************************************************)
EXTENDS Integers, Sequences, FiniteSets, TLC

\* Python None (a nullable column or an Optional field without a value); the
\* nullable quantities of the model are never negative
None == 0 - 1

\* number of requests submitted to POST /simulate in one behaviour
MaxRuns == 2

(***************************************************************************)
(* Generic helpers                                                         *)
(***************************************************************************)
Abs(x) == IF x < 0 THEN 0 - x ELSE x

Max(a, b) == IF a >= b THEN a ELSE b

Min(a, b) == IF a <= b THEN a ELSE b

\* `x or 0` on a nullable integer
OrZero(x) == IF x = None THEN 0 ELSE x

RECURSIVE SetToSeqAsc(_)
SetToSeqAsc(S) ==
    IF S = {} THEN <<>>
    ELSE LET m == CHOOSE x \in S : \A y \in S : x <= y
         IN  <<m>> \o SetToSeqAsc(S \ {m})

Reverse(s) == [i \in 1..Len(s) |-> s[Len(s) + 1 - i]]

RECURSIVE SumSeq(_)
SumSeq(s) == IF s = <<>> THEN 0 ELSE Head(s) + SumSeq(Tail(s))

\* list.sort(key=...) / sorted(key=...): stable, ascending on field "key"
RECURSIVE StableSortByKey(_)
StableSortByKey(s) ==
    IF s = <<>> THEN <<>>
    ELSE LET x    == Head(s)
             rest == StableSortByKey(Tail(s))
             n    == Cardinality({i \in 1..Len(rest) : rest[i].key < x.key})
         IN  SubSeq(rest, 1, n) \o <<x>> \o SubSeq(rest, n + 1, Len(rest))

\* sorted(..., reverse=True): descending, equal keys keep their order
StableSortByKeyDesc(s) ==
    LET neg == [i \in 1..Len(s) |-> [key |-> 0 - s[i].key, val |-> s[i].val]]
        srt == StableSortByKey(neg)
    IN  [i \in 1..Len(srt) |-> [key |-> 0 - srt[i].key, val |-> srt[i].val]]

\* round(x, 1) of a length given in 0.01 km: nearest multiple of 10, ties to even
Round1(x) ==
    LET r == x % 10
        b == x - r
    IN  IF r < 5 THEN b
        ELSE IF r > 5 THEN b + 10
        ELSE IF (b \div 10) % 2 = 0 THEN b ELSE b + 10

\* round(num / den) for num >= 0, den > 0: nearest integer, ties to even
RoundDiv(num, den) ==
    LET q == num \div den
        r == num % den
    IN  IF 2 * r < den THEN q
        ELSE IF 2 * r > den THEN q + 1
        ELSE IF q % 2 = 0 THEN q ELSE q + 1

(***************************************************************************)
(* Geospatial kernel                                                       *)
(***************************************************************************)
\* _haversine for two points of the equator
Haversine(p, q) == Abs(p - q)

\* _bearing for two points of the equator: 90 eastwards, 270 westwards,
\* atan2(0, 0) = 0 for identical points
Bearing(p, q) == IF q > p THEN 90 ELSE IF q < p THEN 270 ELSE 0

\* _WIND_BEARINGS
WindBearings ==
    [d \in {"N", "NE", "E", "SE", "S", "SW", "W", "NW"} |->
        CASE d = "N"  -> 0
          [] d = "NE" -> 45
          [] d = "E"  -> 90
          [] d = "SE" -> 135
          [] d = "S"  -> 180
          [] d = "SW" -> 225
          [] d = "W"  -> 270
          [] d = "NW" -> 315]

(***************************************************************************)
(* Repository contents at start-up                                         *)
(***************************************************************************)
\* regions table: latitude/longitude, population (nullable), is_active
Region ==
    << [pos |-> 0,     population |-> 10,   is_active |-> TRUE],
       [pos |-> 4000,  population |-> 5,    is_active |-> TRUE],
       [pos |-> 10004, population |-> 3,    is_active |-> TRUE],
       [pos |-> 16000, population |-> None, is_active |-> TRUE],
       [pos |-> 2000,  population |-> 7,    is_active |-> FALSE] >>

RegionIds == DOMAIN Region

\* distribution_centers table
Center ==
    << [region_id |-> 1, pos |-> 0,     is_active |-> TRUE,  operational_status |-> "operational"],
       [region_id |-> 2, pos |-> 4000,  is_active |-> TRUE,  operational_status |-> "operational"],
       [region_id |-> 3, pos |-> 10004, is_active |-> TRUE,  operational_status |-> "operational"],
       [region_id |-> 4, pos |-> 16000, is_active |-> TRUE,  operational_status |-> "operational"],
       [region_id |-> 4, pos |-> 15000, is_active |-> FALSE, operational_status |-> "operational"] >>

CenterIds == DOMAIN Center

\* food_inventory: the latest row of each region (present = FALSE: the region
\* has no row); quantity_tonnes, consumption_rate_tonnes_per_day, days_of_supply
Inventory ==
    << [present |-> TRUE,  quantity_tonnes |-> 50, consumption_rate |-> 10,   days_of_supply |-> None],
       [present |-> TRUE,  quantity_tonnes |-> 40, consumption_rate |-> None, days_of_supply |-> 5],
       [present |-> FALSE, quantity_tonnes |-> None, consumption_rate |-> None, days_of_supply |-> None],
       [present |-> TRUE,  quantity_tonnes |-> 90, consumption_rate |-> 0,    days_of_supply |-> 20],
       [present |-> FALSE, quantity_tonnes |-> None, consumption_rate |-> None, days_of_supply |-> None] >>

NewRoute(o, d, oc, dc, status, active) ==
    [origin_region_id |-> o, destination_region_id |-> d,
     origin_center_id |-> oc, destination_center_id |-> dc,
     operational_status |-> status, is_active |-> active]

\* transport_routes table before the first request
InitRoutes ==
    << NewRoute(1, 2, 1, 2, "operational", TRUE),
       NewRoute(2, 3, 2, 3, "operational", TRUE),
       NewRoute(3, 4, 3, 4, "operational", TRUE),
       NewRoute(3, 2, 3, 2, "operational", TRUE),
       NewRoute(2, 3, None, None, "operational", FALSE),
       NewRoute(1, 2, None, None, "maintenance", TRUE) >>

\* routes: the rows as the objects of the session hold them; unflushed: the
\* status changes of the session the database has not received yet, as pairs
\* <<route id, status of the row in the database>>
InitDb ==
    [routes |-> InitRoutes, disruptions |-> <<>>, alerts |-> <<>>, plans |-> <<>>,
     unflushed |-> {}]

(***************************************************************************)
(* Repository queries                                                      *)
(***************************************************************************)
\* rows of a query without ORDER BY, in the order the database returns them
QueryOrder(ids, order) ==
    IF order = "asc" THEN SetToSeqAsc(ids) ELSE Reverse(SetToSeqAsc(ids))

\* self.db.flush(): the pending changes of the session reach the database
Flush(t) == [t EXCEPT !.unflushed = {}]

\* session.commit() of get_db: flushes, then commits
Commit(t) == [t EXCEPT !.unflushed = {}]

\* the routes table as a query of the session sees it (autoflush is off: a
\* pending status change is not visible to the WHERE clause)
FlushedRoutes(t) ==
    [i \in 1..Len(t.routes) |->
        IF \E u \in t.unflushed : u[1] = i
        THEN [t.routes[i] EXCEPT !.operational_status =
                 (CHOOSE u \in t.unflushed : u[1] = i)[2]]
        ELSE t.routes[i]]

\* _get_region: scalar_one_or_none() on the primary key finds a row
RegionExists(region_id) == region_id \in RegionIds

(***************************************************************************)
(* Step 1 - weather check                                                  *)
(***************************************************************************)
\* `w.get(k) or default`
OrDefault(x, default) == IF x = None \/ x = 0 THEN default ELSE x

FireWeatherRisk(w) ==
    LET temp     == OrDefault(w.temperature_c, 0)
        humidity == OrDefault(w.humidity_percentage, 100)
        wind     == OrDefault(w.wind_speed_kmh, 0)
        t == IF temp > 35 THEN 3 ELSE IF temp > 28 THEN 2 ELSE IF temp > 20 THEN 1 ELSE 0
        h == IF humidity < 20 THEN 3 ELSE IF humidity < 35 THEN 2
             ELSE IF humidity < 50 THEN 1 ELSE 0
        v == IF wind > 40 THEN 3 ELSE IF wind > 25 THEN 2 ELSE IF wind > 10 THEN 1 ELSE 0
        risk_score == t + h + v
    IN  IF risk_score >= 7 THEN "extreme"
        ELSE IF risk_score >= 5 THEN "high"
        ELSE IF risk_score >= 3 THEN "moderate"
        ELSE "low"

Step1WeatherCheck(w) ==
    [temperature_c     |-> w.temperature_c,
     humidity_pct      |-> w.humidity_percentage,
     wind_speed_kmh    |-> w.wind_speed_kmh,
     wind_direction    |-> w.wind_direction,
     fire_weather_risk |-> FireWeatherRisk(w)]

(***************************************************************************)
(* Step 2 - flag affected zones                                            *)
(***************************************************************************)
\* a score that grows with the distance: (dist / radius) * fire_intensity
BaseSeverityOfDistance(dist, radius_km, fire_intensity) ==
    IF dist * fire_intensity >= 6 * radius_km THEN "critical"
    ELSE IF dist * fire_intensity >= 3 * radius_km THEN "high"
    ELSE "moderate"

\* severity bucket of (1 - dist / radius) * fire_intensity: >= 0.6, >= 0.3
BaseSeverity(dist, radius_km, fire_intensity) ==
    IF (radius_km - dist) * fire_intensity >= 6 * radius_km THEN "critical"
    ELSE IF (radius_km - dist) * fire_intensity >= 3 * radius_km THEN "high"
    ELSE "moderate"

\* an angle difference that is not folded back at 180 degrees
AngleDiffUnfolded(bearing_to_region, wind_bearing) ==
    Abs(bearing_to_region - wind_bearing)

\* angle_diff of a bearing to the region and a wind bearing, both in degrees
AngleDiff(bearing_to_region, wind_bearing) ==
    LET diff == Abs(bearing_to_region - wind_bearing)
    IN  IF diff > 180 THEN 360 - diff ELSE diff

\* wind_exposed for a bearing to the region; wind_bearing is None for a wind
\* direction that is not a key of _WIND_BEARINGS
ExposedAt(bearing_to_region, wind_direction) ==
    IF wind_direction \in DOMAIN WindBearings
    THEN AngleDiff(bearing_to_region, WindBearings[wind_direction]) < 60
    ELSE FALSE

WindExposed(fire_pos, region_pos, wind_direction) ==
    ExposedAt(Bearing(fire_pos, region_pos), wind_direction)

UpgradeSeverity(severity, wind_exposed) ==
    IF wind_exposed /\ severity = "moderate" THEN "high"
    ELSE IF wind_exposed /\ severity = "high" THEN "critical"
    ELSE severity

\* the severity of a region inside the radius
ZoneSeverity(dist, radius_km, fire_intensity, wind_exposed) ==
    UpgradeSeverity(BaseSeverity(dist, radius_km, fire_intensity), wind_exposed)

AffectedZone(request, weather, region_id) ==
    LET region       == Region[region_id]
        dist         == Haversine(request.pos, region.pos)
        wind_exposed == WindExposed(request.pos, region.pos, weather.wind_direction)
    IN  [region_id    |-> region_id,
         distance_km  |-> Round1(dist),
         severity     |-> ZoneSeverity(dist, request.radius_km, request.fire_intensity,
                                       wind_exposed),
         population   |-> region.population,
         wind_exposed |-> wind_exposed]

\* a zone flagging that leaves out the regions at exactly the radius
Step2FlagZonesInsideOnly(request, weather, order) ==
    LET all_regions == QueryOrder({i \in RegionIds : Region[i].is_active}, order)
        InRadius(i) == Haversine(request.pos, Region[i].pos) < request.radius_km
        inside      == SelectSeq(all_regions, InRadius)
        keyed       == [k \in 1..Len(inside) |->
                          LET z == AffectedZone(request, weather, inside[k])
                          IN  [key |-> z.distance_km, val |-> z]]
        sorted      == StableSortByKey(keyed)
    IN  [total_regions_scanned |-> Len(all_regions),
         affected_zones        |-> [k \in 1..Len(sorted) |-> sorted[k].val]]

\* _step2_flag_zones: the active regions within the radius, sorted by the
\* rounded distance_km of the zone (list.sort is stable)
Step2FlagZones(request, weather, order) ==
    LET all_regions == QueryOrder({i \in RegionIds : Region[i].is_active}, order)
        InRadius(i) == Haversine(request.pos, Region[i].pos) <= request.radius_km
        inside      == SelectSeq(all_regions, InRadius)
        keyed       == [k \in 1..Len(inside) |->
                          LET z == AffectedZone(request, weather, inside[k])
                          IN  [key |-> z.distance_km, val |-> z]]
        sorted      == StableSortByKey(keyed)
    IN  [total_regions_scanned |-> Len(all_regions),
         affected_zones        |-> [k \in 1..Len(sorted) |-> sorted[k].val]]

AffectedIds(zones) == {zones.affected_zones[k].region_id : k \in 1..Len(zones.affected_zones)}

\* severity_map.get(region_id, "")
SeverityOf(zones, region_id) ==
    LET hits == {k \in 1..Len(zones.affected_zones) :
                    zones.affected_zones[k].region_id = region_id}
    IN  IF hits = {} THEN ""
        ELSE zones.affected_zones[CHOOSE k \in hits : \A j \in hits : k >= j].severity

(***************************************************************************)
(* Step 3 - create route disruptions                                       *)
(***************************************************************************)
SeverityRank(s) ==
    CASE s = "critical" -> 3
      [] s = "high"     -> 2
      [] s = "moderate" -> 1
      [] OTHER          -> 0

\* a worst severity that only looks at the origin of the route
WorstSeverityOfOrigin(a, b) == a

\* _worst_severity: the higher of the two in critical > high > moderate > ""
WorstSeverity(a, b) == IF SeverityRank(a) >= SeverityRank(b) THEN a ELSE b

DbSeverity(worst) ==
    CASE worst = "critical" -> "CRITICAL"
      [] worst = "high"     -> "HIGH"
      [] OTHER              -> "MEDIUM"

\* a status map that leaves the routes of moderate zones operational
StatusOfSeverityKeepsModerate(db_severity) ==
    CASE db_severity = "CRITICAL" -> "blocked"
      [] db_severity = "HIGH"     -> "restricted"
      [] OTHER                    -> "operational"

\* status_map.get(db_severity, "impaired")
StatusOfSeverity(db_severity) ==
    CASE db_severity = "CRITICAL" -> "blocked"
      [] db_severity = "HIGH"     -> "restricted"
      [] OTHER                    -> "impaired"

CapacityReduction(worst) ==
    CASE worst = "critical" -> 100
      [] worst = "high"     -> 70
      [] OTHER              -> 40

\* a selection that also takes the routes that are not active
DisruptionCandidatesInactiveToo(routes, affected_ids, order) ==
    QueryOrder({i \in 1..Len(routes) :
                   /\ routes[i].operational_status = "operational"
                   /\ \/ routes[i].origin_region_id \in affected_ids
                      \/ routes[i].destination_region_id \in affected_ids}, order)

\* a selection that does not look at the status of the route
DisruptionCandidatesAnyStatus(routes, affected_ids, order) ==
    QueryOrder({i \in 1..Len(routes) :
                   /\ routes[i].is_active
                   /\ \/ routes[i].origin_region_id \in affected_ids
                      \/ routes[i].destination_region_id \in affected_ids}, order)

\* the routes the disruption stage selects, in row order
DisruptionCandidates(routes, affected_ids, order) ==
    QueryOrder({i \in 1..Len(routes) :
                   /\ routes[i].is_active
                   /\ routes[i].operational_status = "operational"
                   /\ \/ routes[i].origin_region_id \in affected_ids
                      \/ routes[i].destination_region_id \in affected_ids}, order)

\* the loop of the stage over the selected routes: each adds a disruption
\* row and overwrites the status of its route
RECURSIVE DisruptRoutes(_, _, _, _, _)
DisruptRoutes(todo, t, zones, scenario, records) ==
    IF todo = <<>> THEN [t |-> t, records |-> records]
    ELSE LET route_id    == Head(todo)
             route       == t.routes[route_id]
             worst       == WorstSeverity(SeverityOf(zones, route.origin_region_id),
                                          SeverityOf(zones, route.destination_region_id))
             db_severity == DbSeverity(worst)
             disruption  == [route_id  |-> route_id,
                             region_id |-> route.origin_region_id,
                             severity  |-> db_severity,
                             capacity_reduction_percentage |-> CapacityReduction(worst),
                             is_active |-> TRUE,
                             scenario  |-> scenario]
             status      == StatusOfSeverity(db_severity)
             flushed     == [Flush(t) EXCEPT !.disruptions = Append(@, disruption)]
             t2          == [flushed EXCEPT
                                !.routes[route_id].operational_status = status,
                                !.unflushed = @ \cup {<<route_id, FlushedRoutes(flushed)[route_id].operational_status>>}]
             record      == [disruption_id |-> Len(t2.disruptions),
                             route_id      |-> route_id,
                             severity      |-> worst,
                             status        |-> status]
         IN  DisruptRoutes(Tail(todo), t2, zones, scenario, Append(records, record))

Step3CreateDisruptions(t, scenario, zones, order) ==
    IF AffectedIds(zones) = {}
    THEN [t |-> t,
          result |-> [routes_scanned |-> 0, disruptions_created |-> 0, disruptions |-> <<>>]]
    ELSE LET routes == DisruptionCandidates(FlushedRoutes(t), AffectedIds(zones), order)
             done   == DisruptRoutes(routes, t, zones, scenario, <<>>)
         IN  [t |-> done.t,
              result |-> [routes_scanned      |-> Len(routes),
                          disruptions_created |-> Len(done.records),
                          disruptions         |-> done.records]]

(***************************************************************************)
(* Step 4 - displace population                                            *)
(***************************************************************************)
\* sev_mult of the displacement stage, in tenths
DisplacementMult(severity) ==
    CASE severity = "critical" -> 10
      [] severity = "high"     -> 7
      [] severity = "moderate" -> 3
      [] OTHER                 -> 3

\* a displaced count that takes sev_mult as 10, 7, 3 instead of 1.0, 0.7, 0.3
DisplacedCountUnscaled(pop, displacement_pct, severity) ==
    (pop * displacement_pct * DisplacementMult(severity)) \div 100

\* int(pop * displacement_pct * sev_mult)
DisplacedCount(pop, displacement_pct, severity) ==
    (pop * displacement_pct * DisplacementMult(severity)) \div 1000

\* the regions that receive displaced people, in row order
SafeRegions(zones, order) ==
    LET z    == zones.affected_zones
        safe == QueryOrder({i \in RegionIds :
                               Region[i].is_active /\ i \notin AffectedIds(zones)}, order)
    IN  IF safe # <<>> THEN safe
        ELSE LET keyed  == [k \in 1..Len(z) |->
                              [key |-> z[k].distance_km, val |-> z[k].region_id]]
                 sorted == StableSortByKeyDesc(keyed)
                 receiver_ids == {sorted[k].val : k \in 1..Min(3, Len(sorted))}
             IN  QueryOrder(receiver_ids, order)

\* safe_with_dist.sort(key=lambda x: x[1]): receivers, nearest to the source first
ReceiversByDistance(from_region_id, safe_regions) ==
    LET keyed  == [k \in 1..Len(safe_regions) |->
                     [key |-> Haversine(Region[from_region_id].pos,
                                        Region[safe_regions[k]].pos),
                      val |-> safe_regions[k]]]
        sorted == StableSortByKey(keyed)
    IN  [k \in 1..Len(sorted) |-> sorted[k].val]

\* a share that divides by the number of all receivers at every position
ShareOfAll(remaining, count, i) == Min(Max(1, remaining \div count), remaining)

\* the share of the receiver at 0-based position i of `count` receivers
Share(remaining, count, i) == Min(Max(1, remaining \div (count - i)), remaining)

\* the loop over the receivers of one zone, from position i on
RECURSIVE AllocateShares(_, _, _, _)
AllocateShares(from_region_id, receivers, remaining, i) ==
    IF i >= Len(receivers) \/ remaining <= 0 THEN <<>>
    ELSE LET share == Share(remaining, Len(receivers), i)
         IN  <<[from_region_id  |-> from_region_id,
                to_region_id    |-> receivers[i + 1],
                displaced_count |-> share]>>
             \o AllocateShares(from_region_id, receivers, remaining - share, i + 1)

\* the loop over the affected zones, from zone k on
RECURSIVE DisplaceZones(_, _, _, _)
DisplaceZones(request, zones, safe_regions, k) ==
    IF k > Len(zones.affected_zones) THEN [total_displaced |-> 0, entries |-> <<>>]
    ELSE LET zone      == zones.affected_zones[k]
             pop       == OrZero(zone.population)
             displaced == DisplacedCount(pop, request.displacement_pct, zone.severity)
             rest      == DisplaceZones(request, zones, safe_regions, k + 1)
         IN  IF pop = 0 \/ displaced = 0 \/ ~RegionExists(zone.region_id) THEN rest
             ELSE [total_displaced |-> displaced + rest.total_displaced,
                   entries |->
                       AllocateShares(zone.region_id,
                                      ReceiversByDistance(zone.region_id, safe_regions),
                                      displaced, 0)
                       \o rest.entries]

Step4DisplacePopulation(request, zones, order) ==
    DisplaceZones(request, zones, SafeRegions(zones, order), 1)

(***************************************************************************)
(* Step 5 - recalculate supply                                             *)
(***************************************************************************)
\* pop_delta.get(rid, 0)
PopDelta(entries, rid) ==
    SumSeq([k \in 1..Len(entries) |->
              (IF entries[k].to_region_id = rid THEN entries[k].displaced_count ELSE 0)
            - (IF entries[k].from_region_id = rid THEN entries[k].displaced_count ELSE 0)])

\* an estimate that is 0 days for a region without an inventory row
EstimatedDaysZeroWithoutRow(inv, mult_num, mult_den) ==
    IF ~inv.present THEN 0
    ELSE IF inv.consumption_rate # None /\ inv.consumption_rate > 0
    THEN IF inv.consumption_rate * mult_num > 0
         THEN RoundDiv(10 * inv.quantity_tonnes * mult_den, inv.consumption_rate * mult_num)
         ELSE None
    ELSE IF inv.days_of_supply # None /\ inv.days_of_supply # 0
    THEN IF mult_num > 0
         THEN RoundDiv(10 * inv.days_of_supply * mult_den, mult_num)
         ELSE None
    ELSE None

\* estimated days of supply in tenths of a day; demand_mult = mult_num / mult_den
EstimatedDays(inv, mult_num, mult_den) ==
    IF inv.present /\ inv.consumption_rate # None /\ inv.consumption_rate > 0
    THEN IF inv.consumption_rate * mult_num > 0
         THEN RoundDiv(10 * inv.quantity_tonnes * mult_den, inv.consumption_rate * mult_num)
         ELSE None
    ELSE IF inv.present /\ inv.days_of_supply # None /\ inv.days_of_supply # 0
    THEN IF mult_num > 0
         THEN RoundDiv(10 * inv.days_of_supply * mult_den, mult_num)
         ELSE None
    ELSE None

\* an entry whose effective population is not clamped at 0
SupplyEntryUnclamped(rid, entries) ==
    LET original_pop  == OrZero(Region[rid].population)
        delta         == PopDelta(entries, rid)
        effective_pop == original_pop + delta
        mult_num      == IF original_pop > 0 THEN effective_pop ELSE 1
        mult_den      == IF original_pop > 0 THEN original_pop ELSE 1
    IN  [region_id                |-> rid,
         original_population      |-> original_pop,
         effective_population     |-> effective_pop,
         demand_multiplier        |-> (100 * mult_num) \div mult_den,
         estimated_days_of_supply |-> None]

\* the entry of one region: demand_multiplier in hundredths
SupplyEntry(rid, entries) ==
    LET original_pop  == OrZero(Region[rid].population)
        delta         == PopDelta(entries, rid)
        effective_pop == Max(0, original_pop + delta)
        mult_num      == IF original_pop > 0 THEN effective_pop ELSE 1
        mult_den      == IF original_pop > 0 THEN original_pop ELSE 1
    IN  [region_id                |-> rid,
         original_population      |-> original_pop,
         effective_population     |-> effective_pop,
         demand_multiplier        |-> RoundDiv(100 * mult_num, mult_den),
         estimated_days_of_supply |-> EstimatedDays(Inventory[rid], mult_num, mult_den)]

Step5RecalculateSupply(zones, displacement) ==
    LET e          == displacement.entries
        region_ids == AffectedIds(zones)
                      \cup {e[k].from_region_id : k \in 1..Len(e)}
                      \cup {e[k].to_region_id : k \in 1..Len(e)}
        found      == SetToSeqAsc({rid \in region_ids : RegionExists(rid)})
        entries    == [k \in 1..Len(found) |-> SupplyEntry(found[k], e)]
    IN  [regions_updated |-> Len(entries), entries |-> entries]

(***************************************************************************)
(* Step 6 - generate alerts                                                *)
(***************************************************************************)
\* settings.shortage_critical_days, settings.shortage_imminent_days
ShortageCriticalDays == 7

ShortageImminentDays == 15

BaseAlertLevel(severity) ==
    IF severity = "critical" THEN "critical"
    ELSE IF severity = "high" THEN "imminent"
    ELSE "warning"

\* an override that forces IMMINENT without looking at the level reached
AlertLevelForcedImminent(severity, days) ==
    LET level == BaseAlertLevel(severity)
    IN  IF days # None
        THEN IF days < 10 * ShortageCriticalDays THEN "critical"
             ELSE IF days < 10 * ShortageImminentDays THEN "imminent"
             ELSE level
        ELSE level

\* days: estimated days of supply in tenths, or None
AlertLevelFor(severity, days) ==
    LET level == BaseAlertLevel(severity)
    IN  IF days # None
        THEN IF days < 10 * ShortageCriticalDays THEN "critical"
             ELSE IF days < 10 * ShortageImminentDays /\ level # "critical" THEN "imminent"
             ELSE level
        ELSE level

\* next(s for s in supply.entries if s.region_id == zone.region_id), then its days
SupplyDays(supply, region_id) ==
    LET hits == {k \in 1..Len(supply.entries) : supply.entries[k].region_id = region_id}
    IN  IF hits = {} THEN None
        ELSE supply.entries[CHOOSE k \in hits : \A j \in hits : k <= j].estimated_days_of_supply

RECURSIVE AlertZones(_, _, _, _, _, _)
AlertZones(t, scenario, zones, supply, k, records) ==
    IF k > Len(zones.affected_zones) THEN [t |-> t, records |-> records]
    ELSE LET zone  == zones.affected_zones[k]
             days  == SupplyDays(supply, zone.region_id)
             level == AlertLevelFor(zone.severity, days)
             alert == [region_id           |-> zone.region_id,
                       alert_level         |-> level,
                       status              |-> "active",
                       population_affected |-> zone.population,
                       current_days_supply |-> days,
                       is_active           |-> TRUE,
                       scenario            |-> scenario]
             t2    == Flush([t EXCEPT !.alerts = Append(@, alert)])
             record == [alert_id |-> Len(t2.alerts), region_id |-> zone.region_id,
                        level |-> level]
         IN  AlertZones(t2, scenario, zones, supply, k + 1, Append(records, record))

\* an alert stage that skips the regions that already have an active alert
Step6SkipsAlertedRegions(t, scenario, zones, supply) ==
    LET Fresh(z) == \A k \in 1..Len(t.alerts) :
                        ~(t.alerts[k].region_id = z.region_id /\ t.alerts[k].is_active)
        fresh == [zones EXCEPT !.affected_zones = SelectSeq(@, Fresh)]
        done  == AlertZones(t, scenario, fresh, supply, 1, <<>>)
    IN  [t |-> done.t,
         result |-> [alerts_generated |-> Len(done.records), alerts |-> done.records]]

\* an alert stage that adds its alerts to the session without flushing
Step6GenerateAlertsUnflushed(t, scenario, zones, supply) ==
    LET done == AlertZones(t, scenario, zones, supply, 1, <<>>)
    IN  [t |-> [done.t EXCEPT !.unflushed = t.unflushed],
         result |-> [alerts_generated |-> Len(done.records), alerts |-> done.records]]

Step6GenerateAlerts(t, scenario, zones, supply) ==
    LET done == AlertZones(t, scenario, zones, supply, 1, <<>>)
    IN  [t |-> done.t,
         result |-> [alerts_generated |-> Len(done.records), alerts |-> done.records]]

(***************************************************************************)
(* Step 7 - reroute                                                        *)
(***************************************************************************)
\* a selection that also takes the impaired routes
BlockedRoutesOrImpaired(routes, order) ==
    QueryOrder({i \in 1..Len(routes) :
                   /\ routes[i].is_active
                   /\ routes[i].operational_status \in {"blocked", "restricted", "impaired"}},
               order)

\* the routes the rerouting stage looks for alternatives to, in row order
BlockedRoutes(routes, order) ==
    QueryOrder({i \in 1..Len(routes) :
                   /\ routes[i].is_active
                   /\ routes[i].operational_status \in {"blocked", "restricted"}}, order)

\* a selection of the centers that only looks at the region
SafeCentersAnyStatus(affected_ids, order) ==
    QueryOrder({c \in CenterIds : Center[c].region_id \notin affected_ids}, order)

\* the active operational centers in regions outside the affected set
SafeCenters(affected_ids, order) ==
    QueryOrder({c \in CenterIds :
                   /\ Center[c].is_active
                   /\ Center[c].operational_status = "operational"
                   /\ Center[c].region_id \notin affected_ids}, order)

\* _find_nearest_safe_center: the first center of the list at minimal distance,
\* None if there is none
FindNearestSafeCenter(target_region_id, safe_centers, affected_ids) ==
    IF ~RegionExists(target_region_id)
    THEN IF safe_centers # <<>> THEN safe_centers[1] ELSE None
    ELSE LET Dist(k) == Haversine(Region[target_region_id].pos, Center[safe_centers[k]].pos)
             cand == {k \in 1..Len(safe_centers) :
                         Center[safe_centers[k]].region_id \notin affected_ids}
             best == {k \in cand : \A j \in cand :
                         Dist(k) < Dist(j) \/ (Dist(k) = Dist(j) /\ k <= j)}
         IN  IF best = {} THEN None ELSE safe_centers[CHOOSE k \in best : TRUE]

\* a lookup that matches the routes of the opposite direction
ExistingRoutesReversed(routes, origin_center, dest_center) ==
    {i \in 1..Len(routes) :
        /\ routes[i].origin_center_id = dest_center
        /\ routes[i].destination_center_id = origin_center
        /\ routes[i].is_active
        /\ routes[i].operational_status = "operational"}

\* rows of the existing-route lookup for a center pair
ExistingRoutes(routes, origin_center, dest_center) ==
    {i \in 1..Len(routes) :
        /\ routes[i].origin_center_id = origin_center
        /\ routes[i].destination_center_id = dest_center
        /\ routes[i].is_active
        /\ routes[i].operational_status = "operational"}

\* a rerouting step without the try/except around get_directions
RerouteOneUncaught(route_id, st, safe_centers, affected_ids, fails) ==
    LET route         == st.t.routes[route_id]
        origin_center == FindNearestSafeCenter(route.origin_region_id,
                                               safe_centers, affected_ids)
        dest_center   == FindNearestSafeCenter(route.destination_region_id,
                                               safe_centers, affected_ids)
        pair_key      == <<origin_center, dest_center>>
        existing      == ExistingRoutes(FlushedRoutes(st.t), origin_center, dest_center)
        alt_route     == NewRoute(Center[origin_center].region_id,
                                  Center[dest_center].region_id,
                                  origin_center, dest_center, "operational", TRUE)
        t2            == Flush([st.t EXCEPT !.routes = Append(@, alt_route)])
    IN  IF origin_center = None \/ dest_center = None THEN st
        ELSE IF origin_center = dest_center THEN st
        ELSE IF pair_key \in st.seen_pairs THEN st
        ELSE IF Cardinality(existing) > 1
             THEN [st EXCEPT !.raised = "MultipleResultsFound"]
        ELSE IF existing # {}
             THEN [st EXCEPT !.seen_pairs = @ \cup {pair_key}]
        ELSE IF pair_key \in fails
             THEN [st EXCEPT !.calls = @ \cup {pair_key}, !.raised = "RoutingError"]
        ELSE [st EXCEPT !.t = t2,
                        !.seen_pairs = @ \cup {pair_key},
                        !.calls = @ \cup {pair_key},
                        !.alternatives =
                            Append(@, [route_id    |-> Len(t2.routes),
                                       origin      |-> origin_center,
                                       destination |-> dest_center])]

\* one blocked route of the rerouting loop.  st: the session t, the
\* alternatives, the seen_pairs, the pairs get_directions was called for, and
\* the exception that left the loop ("" if none: scalar_one_or_none() raises
\* MultipleResultsFound, an exception of get_directions is caught).  fails:
\* the pairs for which get_directions raises
RerouteOne(route_id, st, safe_centers, affected_ids, fails) ==
    LET route         == st.t.routes[route_id]
        origin_center == FindNearestSafeCenter(route.origin_region_id,
                                               safe_centers, affected_ids)
        dest_center   == FindNearestSafeCenter(route.destination_region_id,
                                               safe_centers, affected_ids)
        pair_key      == <<origin_center, dest_center>>
        existing      == ExistingRoutes(FlushedRoutes(st.t), origin_center, dest_center)
        alt_route     == NewRoute(Center[origin_center].region_id,
                                  Center[dest_center].region_id,
                                  origin_center, dest_center, "operational", TRUE)
        t2            == Flush([st.t EXCEPT !.routes = Append(@, alt_route)])
    IN  IF origin_center = None \/ dest_center = None THEN st
        ELSE IF origin_center = dest_center THEN st
        ELSE IF pair_key \in st.seen_pairs THEN st
        ELSE IF Cardinality(existing) > 1
             THEN [st EXCEPT !.seen_pairs = @ \cup {pair_key},
                             !.raised = "MultipleResultsFound"]
        ELSE IF existing # {}
             THEN [st EXCEPT !.seen_pairs = @ \cup {pair_key}]
        ELSE IF pair_key \in fails
             THEN [st EXCEPT !.seen_pairs = @ \cup {pair_key},
                             !.calls = @ \cup {pair_key}]
        ELSE [st EXCEPT !.t = t2,
                        !.seen_pairs = @ \cup {pair_key},
                        !.calls = @ \cup {pair_key},
                        !.alternatives =
                            Append(@, [route_id    |-> Len(t2.routes),
                                       origin      |-> origin_center,
                                       destination |-> dest_center])]

\* the loop over the blocked routes; an exception ends it
RECURSIVE RerouteLoop(_, _, _, _, _)
RerouteLoop(todo, st, safe_centers, affected_ids, fails) ==
    IF todo = <<>> \/ st.raised # "" THEN st
    ELSE RerouteLoop(Tail(todo),
                     RerouteOne(Head(todo), st, safe_centers, affected_ids, fails),
                     safe_centers, affected_ids, fails)

Step7Reroute(t, zones, order, fails) ==
    LET affected_ids   == AffectedIds(zones)
        blocked_routes == BlockedRoutes(FlushedRoutes(t), order)
        start == [t |-> t, alternatives |-> <<>>, seen_pairs |-> {}, calls |-> {},
                  raised |-> ""]
        done  == IF blocked_routes = <<>> THEN start
                 ELSE RerouteLoop(blocked_routes, start,
                                  SafeCenters(affected_ids, order), affected_ids, fails)
    IN  [t |-> done.t,
         raised |-> done.raised,
         calls  |-> done.calls,
         result |-> [blocked_routes             |-> Len(blocked_routes),
                     alternative_routes_created |-> Len(done.alternatives),
                     alternatives               |-> done.alternatives]]

(***************************************************************************)
(* Step 8 - optimise distribution                                          *)
(***************************************************************************)
\* share of a zone's population that stays, in tenths
RemainingMult(severity) ==
    CASE severity = "critical" -> 0
      [] severity = "high"     -> 3
      [] severity = "moderate" -> 7
      [] OTHER                 -> 5

\* keys of a dict in insertion order
RECURSIVE FirstSeen(_, _)
FirstSeen(ids, acc) ==
    IF ids = <<>> THEN acc
    ELSE FirstSeen(Tail(ids),
                   IF \E k \in 1..Len(acc) : acc[k] = Head(ids) THEN acc
                   ELSE Append(acc, Head(ids)))

\* a `receiving` dict that adds the population that stays in an affected
\* region to the displaced people the region takes in
ReceivingPlusResidual(zones, displacement) ==
    LET e        == displacement.entries
        z        == zones.affected_zones
        Stay(k)  == IF z[k].population = None THEN 0
                    ELSE (z[k].population * RemainingMult(z[k].severity)) \div 10
        ids      == FirstSeen([k \in 1..Len(e) |-> e[k].to_region_id]
                              \o [k \in 1..Len(z) |-> z[k].region_id], <<>>)
    IN  [k \in 1..Len(ids) |->
            [region_id |-> ids[k],
             pop |-> SumSeq([j \in 1..Len(e) |->
                               IF e[j].to_region_id = ids[k]
                               THEN e[j].displaced_count ELSE 0])
                     + SumSeq([j \in 1..Len(z) |->
                                 IF z[j].region_id = ids[k] THEN Stay(j) ELSE 0])]]

\* the `receiving` dict as a sequence of (region, population to serve)
Receiving(zones, displacement) ==
    LET e        == displacement.entries
        z        == zones.affected_zones
        to_ids   == FirstSeen([k \in 1..Len(e) |-> e[k].to_region_id], <<>>)
        incoming == [k \in 1..Len(to_ids) |->
                       [region_id |-> to_ids[k],
                        pop |-> SumSeq([j \in 1..Len(e) |->
                                   IF e[j].to_region_id = to_ids[k]
                                   THEN e[j].displaced_count ELSE 0])]]
        Stays(k) == /\ z[k].population # None
                    /\ z[k].population # 0
                    /\ \A j \in 1..Len(to_ids) : to_ids[j] # z[k].region_id
                    /\ (z[k].population * RemainingMult(z[k].severity)) \div 10 > 0
        staying  == SelectSeq([k \in 1..Len(z) |-> k], Stays)
    IN  incoming \o
        [k \in 1..Len(staying) |->
            [region_id |-> z[staying[k]].region_id,
             pop |-> (z[staying[k]].population * RemainingMult(z[staying[k]].severity))
                     \div 10]]

RECURSIVE PlanRegions(_, _, _, _)
PlanRegions(t, scenario, receiving, plans) ==
    IF receiving = <<>> THEN [t |-> t, plans |-> plans]
    ELSE LET region_id    == Head(receiving).region_id
             pop_to_serve == Head(receiving).pop
             dc_count     == Cardinality({c \in CenterIds :
                                 Center[c].region_id = region_id /\ Center[c].is_active})
             plan == [region_id          |-> region_id,
                      status             |-> "draft",
                      population_covered |-> pop_to_serve,
                      distribution_centers_count |-> dc_count,
                      scenario           |-> scenario]
             t2   == Flush([t EXCEPT !.plans = Append(@, plan)])
             summary == [plan_id |-> Len(t2.plans), region_id |-> region_id,
                         population_covered  |-> pop_to_serve,
                         distribution_points |-> Max(dc_count, 1)]
         IN  IF pop_to_serve <= 0 \/ ~RegionExists(region_id)
             THEN PlanRegions(t, scenario, Tail(receiving), plans)
             ELSE PlanRegions(t2, scenario, Tail(receiving), Append(plans, summary))

Step8OptimizeDistribution(t, scenario, zones, displacement) ==
    LET done == PlanRegions(t, scenario, Receiving(zones, displacement), <<>>)
    IN  [t |-> done.t,
         result |-> [plans_created |-> Len(done.plans), plans |-> done.plans]]

(***************************************************************************)
(* The request, the external services and the endpoint                     *)
(***************************************************************************)
\* FireDisasterRequest: the Field bounds of the schema
ValidRequest(request) ==
    /\ request.pos >= 0 - 18000 * 11119 /\ request.pos <= 18000 * 11119
    /\ request.radius_km >= 500 /\ request.radius_km <= 50000
    /\ request.fire_intensity >= 1 /\ request.fire_intensity <= 10
    /\ request.displacement_pct >= 0 /\ request.displacement_pct <= 100

\* the requests submitted: fire positions, radii (600 km is out of range),
\* intensities and displaced fractions
Requests ==
    [pos : {0, 7000}, radius_km : {5000, 20000, 60000},
     fire_intensity : {5, 10}, displacement_pct : {50, 100}]

\* the orders in which the database returns the rows of an unordered query
RowOrders == {"asc", "desc"}

\* observations get_current_weather returns
WeatherObservations ==
    { [temperature_c |-> 36, humidity_percentage |-> 15, wind_speed_kmh |-> 45,
       wind_direction |-> "E"],
      [temperature_c |-> None, humidity_percentage |-> None, wind_speed_kmh |-> 0,
       wind_direction |-> "N"] }

\* exceptions of the weather lookup: ValueError (API key not configured, error
\* body), and the httpx / tenacity errors of a failed call
WeatherErrors == {"ValueError", "HTTPError"}

\* run_pipeline: the stages in the order of its awaits
StageOrder ==
    <<"weather", "zones", "disruptions", "displacement", "supply", "alerts",
      "reroute", "distribution">>

StageIndex(stage) == CHOOSE k \in 1..Len(StageOrder) : StageOrder[k] = stage

\* a run_pipeline that goes from the supply stage straight to rerouting
NextStageSkipsAlerts(stage) ==
    IF stage = "supply" THEN "reroute"
    ELSE IF StageIndex(stage) < Len(StageOrder) THEN StageOrder[StageIndex(stage) + 1]
    ELSE "assemble"

\* where run_pipeline continues after a stage returned
NextStage(stage) ==
    IF StageIndex(stage) < Len(StageOrder) THEN StageOrder[StageIndex(stage) + 1]
    ELSE "assemble"

\* simulate_fire_disaster: the except clauses of the router
ErrorStatus(exc) == IF exc = "ValueError" THEN 400 ELSE 500

\* an error response that carries the results of the stages that returned
ErrorResponsePartial(exc, results) ==
    [status |-> ErrorStatus(exc), detail |-> exc, steps |-> results]

ErrorResponse(exc, results) ==
    [status |-> ErrorStatus(exc), detail |-> exc, steps |-> <<>>]

\* FireDisasterResponse: every stage's result
SuccessResponse(results) ==
    [status |-> 200, detail |-> "", steps |-> results]

NoResponse == [status |-> 0, detail |-> "", steps |-> <<>>]

VARIABLES
    db,        \* the committed repository
    tx,        \* the repository as the request's session sees it (flushed, uncommitted)
    pc,        \* "idle", a stage of StageOrder, "assemble", "completed", "error", "rejected"
    run,       \* requests submitted so far; the current one's scenario_id
    req,       \* the current request
    order,     \* row order of unordered queries during the current request
    out,       \* results of the stages that returned, by stage name
    log,       \* stages started by the current request, in order
    raised,    \* the exception that ended the current request, "" if none
    response,  \* the response sent to the caller
    hist,      \* the completed requests: scenario, request and affected regions
    fin,       \* the arguments of a function applied on its own (KernelSpec)
    fout,      \* its result
    sess       \* the sessions of requests that run at the same time (ConcurrentSpec)

vars == <<db, tx, pc, run, req, order, out, log, raised, response, hist, fin, fout, sess>>

\* no function is applied on its own, no second session is open
Idle == [op |-> "none"]

Init ==
    /\ db = InitDb
    /\ tx = InitDb
    /\ pc = "idle"
    /\ run = 0
    /\ req = [pos |-> 0, radius_km |-> 5000, fire_intensity |-> 10, displacement_pct |-> 50]
    /\ order = "asc"
    /\ out = <<>>
    /\ log = <<>>
    /\ raised = ""
    /\ response = NoResponse
    /\ hist = <<>>
    /\ fin = Idle
    /\ fout = Idle
    /\ sess = Idle

Ready == pc \in {"idle", "completed", "error", "rejected"} /\ run < MaxRuns

\* a request that passes validation: the session is opened, run_pipeline starts
Submit(request, o) ==
    /\ Ready
    /\ ValidRequest(request)
    /\ run' = run + 1
    /\ req' = request
    /\ order' = o
    /\ tx' = db
    /\ pc' = StageOrder[1]
    /\ out' = <<>>
    /\ log' = <<>>
    /\ raised' = ""
    /\ response' = NoResponse
    /\ UNCHANGED <<db, hist, fin, fout, sess>>

\* a request with a field out of range: rejected before the endpoint runs
Reject(request) ==
    /\ Ready
    /\ ~ValidRequest(request)
    /\ run' = run + 1
    /\ req' = request
    /\ pc' = "rejected"
    /\ out' = <<>>
    /\ log' = <<>>
    /\ raised' = "RequestValidationError"
    /\ response' = [status |-> 422, detail |-> "RequestValidationError", steps |-> <<>>]
    /\ UNCHANGED <<db, tx, order, hist, fin, fout, sess>>

\* a stage returned: its result is kept and run_pipeline goes on
Returned(stage, result) ==
    /\ out' = out @@ (stage :> result)
    /\ log' = Append(log, stage)
    /\ pc' = NextStage(stage)
    /\ UNCHANGED <<db, run, req, order, raised, response, hist, fin, fout, sess>>

\* a stage raised and the session is committed instead of rolled back
RaisedCommits(stage, exc) ==
    /\ log' = Append(log, stage)
    /\ pc' = "error"
    /\ raised' = exc
    /\ response' = ErrorResponse(exc, out)
    /\ db' = Commit(tx)
    /\ tx' = Commit(tx)
    /\ UNCHANGED <<run, req, order, out, hist, fin, fout, sess>>

\* a stage raised: the router answers with the error, get_db rolls back
Raised(stage, exc) ==
    /\ log' = Append(log, stage)
    /\ pc' = "error"
    /\ raised' = exc
    /\ response' = ErrorResponse(exc, out)
    /\ tx' = db
    /\ UNCHANGED <<db, run, req, order, out, hist, fin, fout, sess>>

Step1 ==
    /\ pc = "weather"
    /\ \E w \in WeatherObservations : Returned("weather", Step1WeatherCheck(w))
    /\ UNCHANGED tx

\* a weather check that logs the failure and goes on without an observation
Step1FailsSwallowed ==
    /\ pc = "weather"
    /\ \E exc \in WeatherErrors :
          /\ raised' = exc
          /\ out' = out @@ ("weather" :> [temperature_c |-> None, humidity_pct |-> None,
                                          wind_speed_kmh |-> None, wind_direction |-> "",
                                          fire_weather_risk |-> "unknown"])
          /\ log' = Append(log, "weather")
          /\ pc' = NextStage("weather")
          /\ UNCHANGED <<db, tx, run, req, order, response, hist, fin, fout, sess>>

\* get_current_weather raises: nothing was written, the request ends
Step1Fails ==
    /\ pc = "weather"
    /\ \E exc \in WeatherErrors : Raised("weather", exc)

Step2 ==
    /\ pc = "zones"
    /\ Returned("zones", Step2FlagZones(req, out["weather"], order))
    /\ UNCHANGED tx

Step3 ==
    /\ pc = "disruptions"
    /\ LET r == Step3CreateDisruptions(tx, run, out["zones"], order)
       IN  tx' = r.t /\ Returned("disruptions", r.result)

Step4 ==
    /\ pc = "displacement"
    /\ Returned("displacement", Step4DisplacePopulation(req, out["zones"], order))
    /\ UNCHANGED tx

Step5 ==
    /\ pc = "supply"
    /\ Returned("supply", Step5RecalculateSupply(out["zones"], out["displacement"]))
    /\ UNCHANGED tx

Step6 ==
    /\ pc = "alerts"
    /\ LET r == Step6GenerateAlerts(tx, run, out["zones"], out["supply"])
       IN  tx' = r.t /\ Returned("alerts", r.result)

\* the pairs the rerouting loop asks the Routing Service about
RoutingCalls(t, zones, o) == Step7Reroute(t, zones, o, {}).calls

Step7 ==
    /\ pc = "reroute"
    /\ \E fails \in SUBSET RoutingCalls(tx, out["zones"], order) :
          LET r == Step7Reroute(tx, out["zones"], order, fails)
          IN  IF r.raised # ""
              THEN Raised("reroute", r.raised)
              ELSE tx' = r.t /\ Returned("reroute",
                                         r.result @@ [calls |-> r.calls, failed |-> fails])

Step8 ==
    /\ pc = "distribution"
    /\ LET r == Step8OptimizeDistribution(tx, run, out["zones"], out["displacement"])
       IN  tx' = r.t /\ Returned("distribution", r.result)

\* a repository call of a stage after the weather check raises
StageFails ==
    /\ pc \in {StageOrder[k] : k \in 2..Len(StageOrder)}
    /\ Raised(pc, "SQLAlchemyError")

\* run_pipeline returns the response; get_db commits the session
Return ==
    /\ pc = "assemble"
    /\ response' = SuccessResponse(out)
    /\ db' = Commit(tx)
    /\ tx' = Commit(tx)
    /\ pc' = "completed"
    /\ hist' = Append(hist, [scenario |-> run, request |-> req,
                             affected |-> AffectedIds(out["zones"])])
    /\ UNCHANGED <<run, req, order, out, log, raised, fin, fout, sess>>

Next ==
    \/ \E request \in Requests, o \in RowOrders : Submit(request, o)
    \/ \E request \in Requests : Reject(request)
    \/ Step1
    \/ Step1Fails
    \/ Step2
    \/ Step3
    \/ Step4
    \/ Step5
    \/ Step6
    \/ Step7
    \/ Step8
    \/ StageFails
    \/ Return

Spec == Init /\ [][Next]_vars

(***************************************************************************)
(* The functions of the stages applied on their own: the argument is drawn  *)
(* at the start, one action applies the function to it.                    *)
(***************************************************************************)
\* observations: temperature (None when the API sends no main.temp), humidity
\* in percent (None when it sends no main.humidity), wind speed in km/h
KernelTemperatures == {None, 0, 20, 21, 28, 29, 35, 36}

KernelHumidities == {None, 0, 19, 20, 34, 35, 49, 50, 100}

KernelWindSpeeds == {0, 10, 11, 25, 26, 40, 41}

\* distances inside the radius (step 2 skips dist > radius_km)
KernelDistances == {0, 1000, 2000, 2001, 3500, 3501, 5000}

KernelRadius == 5000

KernelIntensities == {3, 5, 6, 10}

\* bearings to the region, in degrees of [0, 360)
KernelBearings == {0, 30, 59, 60, 61, 120, 180, 240, 299, 300, 301, 330, 359}

\* weather.wind_direction: a compass code, or "" (`weather.wind_direction or ""`)
KernelWindDirections == DOMAIN WindBearings \cup {""}

\* displaced_count values of an entry, beyond every population of Region
KernelCounts == {1, 3, 5, 10, 20, 1000}

\* fire requests for the zone flagging: region 2 is at exactly the radius for
\* (0, 4000) and (7000, 3000)
KernelFlagRequests ==
    [pos : {0, 7000}, radius_km : {2000, 3000, 4000, 5000, 20000},
     fire_intensity : {5, 10}, displacement_pct : {50}]

\* latest inventory rows (present = FALSE: the region has none) and demand
\* multipliers mult_num / mult_den for the estimate of the days of supply
KernelInventories ==
    [present : {TRUE}, quantity_tonnes : {0, 40}, consumption_rate : {None, 0, 10},
     days_of_supply : {None, 0, 5}]
    \cup {[present |-> FALSE, quantity_tonnes |-> None, consumption_rate |-> None,
           days_of_supply |-> None]}

KernelMultipliers == [mult_num : {0, 1, 3}, mult_den : {1, 2}]

KernelInputs ==
    [op : {"risk"},
     w : [temperature_c : KernelTemperatures, humidity_percentage : KernelHumidities,
          wind_speed_kmh : KernelWindSpeeds, wind_direction : {"N"}]]
    \cup [op : {"zone"}, dist : KernelDistances, radius_km : {KernelRadius},
          fire_intensity : KernelIntensities, bearing : KernelBearings,
          wind_direction : KernelWindDirections]
    \cup [op : {"supply"}, rid : RegionIds,
          entries : {<<>>} \cup
                    {<<e>> : e \in [from_region_id : RegionIds, to_region_id : RegionIds,
                                    displaced_count : KernelCounts]}]
    \cup [op : {"flag"}, request : KernelFlagRequests,
          wind_direction : {"N", "E"}, order : RowOrders]
    \cup {[op |-> "days", inv |-> inv, mult_num |-> m.mult_num, mult_den |-> m.mult_den] :
             inv \in KernelInventories, m \in KernelMultipliers}

KernelInit ==
    /\ db = InitDb
    /\ tx = InitDb
    /\ pc = "idle"
    /\ run = 0
    /\ req = [pos |-> 0, radius_km |-> 5000, fire_intensity |-> 10, displacement_pct |-> 50]
    /\ order = "asc"
    /\ out = <<>>
    /\ log = <<>>
    /\ raised = ""
    /\ response = NoResponse
    /\ hist = <<>>
    /\ fin \in KernelInputs
    /\ fout = Idle
    /\ sess = Idle

KernelUnchanged ==
    UNCHANGED <<db, tx, pc, run, req, order, out, log, raised, response, hist, fin, sess>>

\* _step1_weather_check on the observation
ApplyFireWeatherRisk ==
    /\ fin.op = "risk" /\ fout = Idle
    /\ fout' = [op |-> "risk", result |-> Step1WeatherCheck(fin.w)]
    /\ KernelUnchanged

\* the loop body of _step2_flag_zones on a region at the distance and bearing
ApplyZoneSeverity ==
    /\ fin.op = "zone" /\ fout = Idle
    /\ LET wind_exposed == ExposedAt(fin.bearing, fin.wind_direction)
       IN  fout' = [op |-> "zone",
                    wind_exposed |-> wind_exposed,
                    severity |-> ZoneSeverity(fin.dist, fin.radius_km, fin.fire_intensity,
                                              wind_exposed)]
    /\ KernelUnchanged

\* the loop body of _step5_recalculate_supply on a region and the entries
ApplySupplyEntry ==
    /\ fin.op = "supply" /\ fout = Idle
    /\ fout' = [op |-> "supply", entry |-> SupplyEntry(fin.rid, fin.entries)]
    /\ KernelUnchanged

\* _step2_flag_zones on the request, the wind direction of the weather check
\* and the row order of the regions query
ApplyFlagZones ==
    /\ fin.op = "flag" /\ fout = Idle
    /\ fout' = [op |-> "flag",
                result |-> Step2FlagZones(fin.request,
                                          [wind_direction |-> fin.wind_direction],
                                          fin.order)]
    /\ KernelUnchanged

\* the estimate of _step5_recalculate_supply on an inventory row and a
\* demand multiplier
ApplyEstimatedDays ==
    /\ fin.op = "days" /\ fout = Idle
    /\ fout' = [op |-> "days",
                estimated_days_of_supply |->
                    EstimatedDays(fin.inv, fin.mult_num, fin.mult_den)]
    /\ KernelUnchanged

KernelNext ==
    \/ ApplyFireWeatherRisk
    \/ ApplyZoneSeverity
    \/ ApplySupplyEntry
    \/ ApplyFlagZones
    \/ ApplyEstimatedDays

KernelSpec == KernelInit /\ [][KernelNext]_vars

(***************************************************************************)
(* Two requests at the same time.  Each has its own session (get_db); what  *)
(* a session wrote is visible to the other one once it is committed.  The   *)
(* UPDATE of a route row makes a later writer of that row wait for the     *)
(* commit, so the writes of the requests take effect in commit order.      *)
(* Nothing in the stages locks a row between the select and the write.     *)
(***************************************************************************)
Sessions == {1, 2}

\* the requests of the two sessions
ConcurrentRequests ==
    [pos : {0, 7000}, radius_km : {5000, 20000},
     fire_intensity : {5, 10}, displacement_pct : {50}]

\* a write that leaves out the routes another request disrupted in between
ConcurrentWriteIfOperational(selected, t, zones, scenario) ==
    LET StillOperational(i) == t.routes[i].operational_status = "operational"
    IN  DisruptRoutes(SelectSeq(selected, StillOperational), t, zones, scenario, <<>>)

\* the loop of the disruption stage over the routes the session selected,
\* applied to the rows as they are when its writes take effect
ConcurrentWrite(selected, t, zones, scenario) ==
    DisruptRoutes(selected, t, zones, scenario, <<>>)

ConcurrentInit ==
    /\ db = InitDb
    /\ tx = InitDb
    /\ pc = "idle"
    /\ run = 0
    /\ req = [pos |-> 0, radius_km |-> 5000, fire_intensity |-> 10, displacement_pct |-> 50]
    /\ order = "asc"
    /\ out = <<>>
    /\ log = <<>>
    /\ raised = ""
    /\ response = NoResponse
    /\ hist = <<>>
    /\ fin = Idle
    /\ fout = Idle
    /\ sess = [s \in Sessions |-> [pc |-> "idle"]]

ConcurrentUnchanged ==
    UNCHANGED <<tx, pc, run, req, order, out, log, raised, response, hist, fin, fout>>

\* the request of session s arrives: weather check and zone flagging
ConcurrentOpen(s, request, w, o) ==
    /\ sess[s].pc = "idle"
    /\ sess' = [sess EXCEPT ![s] =
                   [pc |-> "select", request |-> request, order |-> o,
                    zones |-> Step2FlagZones(request, Step1WeatherCheck(w), o)]]
    /\ UNCHANGED db
    /\ ConcurrentUnchanged

\* the select of the disruption stage: the committed routes
ConcurrentSelect(s) ==
    /\ sess[s].pc = "select"
    /\ LET affected_ids == AffectedIds(sess[s].zones)
           selected == IF affected_ids = {} THEN <<>>
                       ELSE DisruptionCandidates(FlushedRoutes(db), affected_ids, sess[s].order)
       IN  sess' = [sess EXCEPT ![s] =
                       [pc |-> "write", request |-> sess[s].request,
                        order |-> sess[s].order, zones |-> sess[s].zones,
                        selected |-> selected]]
    /\ UNCHANGED db
    /\ ConcurrentUnchanged

\* the writes of the disruption stage, the stages after it, and the commit;
\* an exception of the rerouting stage rolls the session back
ConcurrentFinish(s) ==
    /\ sess[s].pc = "write"
    /\ LET zones        == sess[s].zones
           t3           == ConcurrentWrite(sess[s].selected, db, zones, s).t
           displacement == Step4DisplacePopulation(sess[s].request, zones, sess[s].order)
           supply       == Step5RecalculateSupply(zones, displacement)
           t6           == Step6GenerateAlerts(t3, s, zones, supply).t
           r7           == Step7Reroute(t6, zones, sess[s].order, {})
           t8           == Step8OptimizeDistribution(r7.t, s, zones, displacement).t
           commits      == Cardinality({u \in Sessions : sess[u].pc = "done"})
       IN  IF r7.raised # ""
           THEN /\ sess' = [sess EXCEPT ![s] = [pc |-> "error"]]
                /\ UNCHANGED db
           ELSE /\ sess' = [sess EXCEPT ![s] =
                               [pc |-> "done", zones |-> zones,
                                selected |-> sess[s].selected, seq |-> commits + 1]]
                /\ db' = Commit(t8)
    /\ ConcurrentUnchanged

ConcurrentNext ==
    \/ \E s \in Sessions, request \in ConcurrentRequests,
          w \in WeatherObservations, o \in RowOrders : ConcurrentOpen(s, request, w, o)
    \/ \E s \in Sessions : ConcurrentSelect(s)
    \/ \E s \in Sessions : ConcurrentFinish(s)

ConcurrentSpec == ConcurrentInit /\ [][ConcurrentNext]_vars

(***************************************************************************)
(* Properties                                                              *)
(***************************************************************************)
IsPrefix(s, t) == Len(s) <= Len(t) /\ \A k \in 1..Len(s) : s[k] = t[k]

Done(stage) == stage \in DOMAIN out

Zones == out["zones"].affected_zones

Entries == out["displacement"].entries

\* C1: the stages of a request start in the order of StageOrder, each at most
\* once; a stage starts only when every stage before it has returned; the
\* request reaches "completed" only after the distribution stage returned.
StagesRunInOrder ==
    /\ IsPrefix(log, StageOrder)
    /\ \A k \in 1..Len(log) - 1 : Done(log[k])
    /\ DOMAIN out \subseteq {log[k] : k \in 1..Len(log)}
    /\ pc \in {StageOrder[k] : k \in 1..Len(StageOrder)}
          => /\ Len(log) = StageIndex(pc) - 1
             /\ \A k \in 1..Len(log) : Done(log[k])
    /\ pc \in {"assemble", "completed"} => log = StageOrder /\ Done("distribution")

C1Witness == pc = "completed" /\ log = StageOrder /\ Done("distribution")

\* displaced_count of the entries of one source zone, summed
SentFrom(entries, region_id) ==
    SumSeq([k \in 1..Len(entries) |->
              IF entries[k].from_region_id = region_id
              THEN entries[k].displaced_count ELSE 0])

ZoneDisplaced(zone) ==
    DisplacedCount(OrZero(zone.population), req.displacement_pct, zone.severity)

\* C2: after the displacement stage, the entries of every zone with a positive
\* population and a nonzero displaced count sum to that count, given a
\* receiver exists; total_displaced is the sum over all entries of the run.
DisplacementConserved ==
    Done("displacement") =>
        /\ \A k \in 1..Len(Zones) :
              ( /\ OrZero(Zones[k].population) > 0
                /\ ZoneDisplaced(Zones[k]) # 0
                /\ SafeRegions(out["zones"], order) # <<>> )
              => SentFrom(Entries, Zones[k].region_id) = ZoneDisplaced(Zones[k])
        /\ out["displacement"].total_displaced
              = SumSeq([k \in 1..Len(Entries) |-> Entries[k].displaced_count])

\* a zone with fewer displaced people than receivers, and one with more
C2Witness ==
    /\ Done("displacement")
    /\ \E k \in 1..Len(Zones) :
          /\ ZoneDisplaced(Zones[k]) > 0
          /\ ZoneDisplaced(Zones[k]) < Len(SafeRegions(out["zones"], order))
          /\ SentFrom(Entries, Zones[k].region_id) = ZoneDisplaced(Zones[k])
    /\ \E k \in 1..Len(Zones) :
          ZoneDisplaced(Zones[k]) > Len(SafeRegions(out["zones"], order))

\* C3: of two receivers of one source zone, the one nearer to the source is
\* allocated a strictly larger displaced_count.
CloserReceiverGetsMore ==
    Done("displacement") =>
        \A a, b \in 1..Len(Entries) :
            ( /\ Entries[a].from_region_id = Entries[b].from_region_id
              /\ Haversine(Region[Entries[a].from_region_id].pos,
                           Region[Entries[a].to_region_id].pos)
                 < Haversine(Region[Entries[b].from_region_id].pos,
                             Region[Entries[b].to_region_id].pos) )
            => Entries[a].displaced_count > Entries[b].displaced_count

AlertRank(level) ==
    CASE level = "critical" -> 3
      [] level = "imminent" -> 2
      [] level = "warning"  -> 1
      [] OTHER              -> 0

\* the level the days of supply force: CRITICAL below the critical threshold,
\* IMMINENT below the imminent threshold, none when absent or above
ForcedLevel(days) ==
    IF days = None THEN "normal"
    ELSE IF days < 10 * ShortageCriticalDays THEN "critical"
    ELSE IF days < 10 * ShortageImminentDays THEN "imminent"
    ELSE "normal"

HigherLevel(a, b) == IF AlertRank(a) >= AlertRank(b) THEN a ELSE b

\* C4: the level of the alert of every affected zone, in the result and in the
\* row written, is the higher of the base level of its severity and the level
\* forced by its recalculated days of supply; it is never below the base level.
AlertLevelIsHigherOfBaseAndForced ==
    Done("alerts") =>
        \A k \in 1..Len(Zones) :
            LET record == out["alerts"].alerts[k]
                days   == SupplyDays(out["supply"], Zones[k].region_id)
                base   == CASE Zones[k].severity = "critical" -> "critical"
                            [] Zones[k].severity = "high"     -> "imminent"
                            [] OTHER                          -> "warning"
            IN  /\ record.region_id = Zones[k].region_id
                /\ record.level = HigherLevel(base, ForcedLevel(days))
                /\ AlertRank(record.level) >= AlertRank(base)
                /\ pc # "error" => tx.alerts[record.alert_id].alert_level = record.level

\* a critical zone whose days of supply lie between the two thresholds, and a
\* moderate zone forced to CRITICAL
C4Witness ==
    /\ Done("alerts")
    /\ \E k \in 1..Len(Zones) :
          LET days == SupplyDays(out["supply"], Zones[k].region_id)
          IN  /\ Zones[k].severity = "critical"
              /\ days # None /\ days >= 10 * ShortageCriticalDays
              /\ days < 10 * ShortageImminentDays
              /\ out["alerts"].alerts[k].level = "critical"
    /\ \E k \in 1..Len(Zones) :
          /\ Zones[k].severity = "moderate"
          /\ out["alerts"].alerts[k].level = "critical"

\* routes with a disruption row of a scenario
DisruptedBy(t, scenario) ==
    {t.disruptions[k].route_id :
        k \in {j \in 1..Len(t.disruptions) : t.disruptions[j].scenario = scenario}}

\* the current request repeats the request of the run before it, which
\* completed, and its disruption stage has returned
Rerun ==
    /\ hist # <<>>
    /\ hist[Len(hist)].scenario = run - 1
    /\ hist[Len(hist)].request = req
    /\ Done("disruptions")
    /\ pc # "error"

\* C5 as stated: a rerun of the same request creates a further disruption row
\* for every route the previous run disrupted.
RerunDuplicatesDisruptions ==
    Rerun => \A r \in DisruptedBy(db, run - 1) : r \in DisruptedBy(tx, run)

\* C5, amended: the stage selects operational routes only and the previous run
\* left every route it disrupted blocked, restricted or impaired, so a rerun of
\* the same request creates no further disruption row for any of them.
RerunCreatesNoFurtherDisruption ==
    Rerun =>
        \A r \in DisruptedBy(db, run - 1) :
            /\ db.routes[r].operational_status \in {"blocked", "restricted", "impaired"}
            /\ r \notin DisruptedBy(tx, run)
            /\ \A k \in 1..Len(out["disruptions"].disruptions) :
                  out["disruptions"].disruptions[k].route_id # r
            /\ Cardinality({k \in 1..Len(tx.disruptions) : tx.disruptions[k].route_id = r}) = 1

C5Witness ==
    /\ Rerun
    /\ DisruptedBy(db, run - 1) # {}
    /\ out["disruptions"].disruptions_created = 0
    /\ Len(tx.disruptions) = Len(db.disruptions)

AlertsOf(t, region_id) ==
    {k \in 1..Len(t.alerts) : t.alerts[k].region_id = region_id}

\* C6: the alert stage creates exactly one alert per affected zone, whatever
\* alerts exist already, and none for other regions; the repository holds, for
\* every region, one alert per completed run that affected it.
OneAlertPerAffectedZone ==
    /\ (Done("alerts") /\ pc # "error") =>
          /\ out["alerts"].alerts_generated = Len(Zones)
          /\ \A r \in RegionIds :
                Cardinality({k \in AlertsOf(tx, r) : tx.alerts[k].scenario = run})
                    = IF r \in AffectedIds(out["zones"]) THEN 1 ELSE 0
    /\ \A r \in RegionIds :
          Cardinality(AlertsOf(db, r))
              = Cardinality({k \in 1..Len(hist) : r \in hist[k].affected})

\* the second completed run of one request: its regions hold two alerts each
C6Witness ==
    /\ pc = "completed"
    /\ Len(hist) = 2
    /\ hist[1].request = hist[2].request
    /\ hist[2].affected # {}
    /\ \A r \in hist[2].affected : Cardinality(AlertsOf(db, r)) = 2

RowsOfScenario(t, scenario) ==
    {k \in 1..Len(t.disruptions) : t.disruptions[k].scenario = scenario}
    \cup {k \in 1..Len(t.alerts) : t.alerts[k].scenario = scenario}
    \cup {k \in 1..Len(t.plans) : t.plans[k].scenario = scenario}

\* C7: when the weather lookup fails the request ends there: no later stage
\* starts, and the repository and the session are what the repository was
\* before the request (no disruption, status change, alert, route or plan).
WeatherFailureAborts ==
    /\ [](raised \in WeatherErrors =>
            /\ pc = "error"
            /\ log = <<"weather">>
            /\ DOMAIN out = {}
            /\ tx = db
            /\ RowsOfScenario(db, run) = {})
    /\ [][raised' \in WeatherErrors => (db' = db /\ tx' = db)]_vars

C7Witness == pc = "error" /\ raised \in WeatherErrors /\ log = <<"weather">> /\ run = 2

\* C8: a failing routing call ends neither the rerouting stage nor the request;
\* the alternatives are exactly the pairs whose call succeeded, each with its
\* route row, and no route exists for a pair whose call failed.
RoutingFailureSkipsPair ==
    /\ (Done("reroute") /\ pc # "error") =>
          LET r  == out["reroute"]
              ok == r.calls \ r.failed
          IN  /\ r.alternative_routes_created = Cardinality(ok)
              /\ Len(r.alternatives) = Cardinality(ok)
              /\ \A k \in 1..Len(r.alternatives) :
                    LET a == r.alternatives[k]
                    IN  /\ <<a.origin, a.destination>> \in ok
                        /\ tx.routes[a.route_id].origin_center_id = a.origin
                        /\ tx.routes[a.route_id].destination_center_id = a.destination
              /\ \A p \in ok :
                    \E k \in 1..Len(r.alternatives) :
                        <<r.alternatives[k].origin, r.alternatives[k].destination>> = p
              /\ \A p \in r.failed :
                    ExistingRoutes(tx.routes, p[1], p[2]) = {}
    /\ (pc = "error" /\ log # <<>> /\ log[Len(log)] = "reroute")
          => raised = "SQLAlchemyError"

\* one call failed, another succeeded, and the request completed
C8Witness ==
    /\ pc = "completed"
    /\ out["reroute"].failed # {}
    /\ out["reroute"].alternative_routes_created >= 1
    /\ Done("distribution")

\* C9: when a stage raises, the response is one error that carries no stage
\* result, the failing stage is the last one started, and nothing of the
\* request runs after it.
ErrorResponseHasNoStageOutputs ==
    /\ [](pc = "error" =>
            /\ response.status \in {400, 500}
            /\ response.detail = raised
            /\ DOMAIN response.steps = {}
            /\ IsPrefix(log, StageOrder)
            /\ log # <<>>
            /\ DOMAIN out = {log[k] : k \in 1..Len(log) - 1})
    /\ [][pc = "error" => (run' = run + 1 \/ UNCHANGED <<log, out, tx, db, response>>)]_vars

\* a stage after the third raised: earlier results exist, none is in the response
C9Witness ==
    /\ pc = "error"
    /\ Len(log) >= 4
    /\ DOMAIN out # {}
    /\ DOMAIN response.steps = {}

\* C10 as stated: a failure raised inside a stage is answered with the
\* internal error, and the client error only answers an out-of-range request.
StageFailuresAreInternalErrors ==
    /\ pc = "error" => response.status = 500
    /\ pc = "rejected" => response.status = 422 /\ ~ValidRequest(req)
    /\ response.status \in {400, 422} => pc = "rejected"

\* C11: every supply entry has effective_population >= 0 and
\* demand_multiplier >= 0, however far the delta lies below the population; a
\* region whose population is 0 or null gets the multiplier 1.0.
SupplyEntryNeverNegative ==
    fout.op = "supply" =>
        /\ fout.entry.effective_population >= 0
        /\ fout.entry.demand_multiplier >= 0
        /\ fout.entry.original_population = OrZero(Region[fin.rid].population)
        /\ OrZero(Region[fin.rid].population) = 0 => fout.entry.demand_multiplier = 100
        /\ PopDelta(fin.entries, fin.rid) + OrZero(Region[fin.rid].population) <= 0
              => fout.entry.effective_population = 0

\* more people leave the region than it has: the effective population is 0
C11Witness ==
    /\ fout.op = "supply"
    /\ Region[fin.rid].population # None
    /\ Region[fin.rid].population + PopDelta(fin.entries, fin.rid) < 0
    /\ fout.entry.effective_population = 0
    /\ fout.entry.demand_multiplier = 0

\* C12: a region without an inventory row gets a supply entry whose
\* estimated_days_of_supply is null, and the alert of such a zone has the base
\* level of its severity.
NoInventoryKeepsBaseLevel ==
    /\ Done("supply") =>
          /\ \A k \in 1..Len(out["supply"].entries) :
                LET e == out["supply"].entries[k]
                IN  ~Inventory[e.region_id].present
                        => e.estimated_days_of_supply = None
          /\ \A k \in 1..Len(Zones) :
                \E j \in 1..Len(out["supply"].entries) :
                    out["supply"].entries[j].region_id = Zones[k].region_id
    /\ Done("alerts") =>
          \A k \in 1..Len(Zones) :
              ~Inventory[Zones[k].region_id].present =>
                  /\ out["alerts"].alerts[k].region_id = Zones[k].region_id
                  /\ out["alerts"].alerts[k].level
                        = CASE Zones[k].severity = "critical" -> "critical"
                            [] Zones[k].severity = "high"     -> "imminent"
                            [] OTHER                          -> "warning"

\* a moderate zone without an inventory row: its alert is a WARNING
C12Witness ==
    /\ pc = "completed"
    /\ \E k \in 1..Len(Zones) :
          /\ ~Inventory[Zones[k].region_id].present
          /\ Zones[k].severity = "moderate"
          /\ SupplyDays(out["supply"], Zones[k].region_id) = None
          /\ out["alerts"].alerts[k].level = "warning"

\* C13: for one radius, intensity and wind exposure, a region farther from
\* the fire is never in a more severe bucket than a nearer one; at one
\* distance a wind-exposed region is never in a lower bucket than one that is
\* not exposed.
SeverityIsMonotone ==
    fout.op = "zone" =>
        /\ \A d \in KernelDistances :
              d >= fin.dist =>
                  SeverityRank(ZoneSeverity(d, fin.radius_km, fin.fire_intensity,
                                            fout.wind_exposed))
                      <= SeverityRank(fout.severity)
        /\ SeverityRank(ZoneSeverity(fin.dist, fin.radius_km, fin.fire_intensity, FALSE))
              <= SeverityRank(ZoneSeverity(fin.dist, fin.radius_km, fin.fire_intensity, TRUE))
        /\ SeverityRank(fout.severity) \in 1..3

\* a critical region, while a farther region of the same fire is moderate
C13Witness ==
    /\ fout.op = "zone"
    /\ fout.severity = "critical"
    /\ ~fout.wind_exposed
    /\ \E d \in KernelDistances :
          /\ d > fin.dist
          /\ ZoneSeverity(d, fin.radius_km, fin.fire_intensity, FALSE) = "moderate"

\* shortest arc between two directions given in degrees
ShortestArc(a, b) == Min((a - b) % 360, (b - a) % 360)

\* C14: a zone is wind-exposed exactly when the wind direction has a bearing
\* and the shortest arc between the bearing to the region and the wind bearing
\* is below 60 degrees; an exposed zone is one bucket above its base bucket
\* (critical stays), a zone that is not exposed keeps its base bucket.
ExposureRaisesOneStep ==
    fout.op = "zone" =>
        LET known == fin.wind_direction \in {"N", "NE", "E", "SE", "S", "SW", "W", "NW"}
            base  == BaseSeverity(fin.dist, fin.radius_km, fin.fire_intensity)
        IN  /\ fout.wind_exposed
                <=> (known /\ ShortestArc(fin.bearing, WindBearings[fin.wind_direction]) < 60)
            /\ fout.wind_exposed =>
                  SeverityRank(fout.severity) = Min(3, SeverityRank(base) + 1)
            /\ ~fout.wind_exposed => fout.severity = base

\* exposure across 0/360: bearing 301, wind from the north, high raised to critical
C14Witness ==
    /\ fout.op = "zone"
    /\ fin.bearing = 301 /\ fin.wind_direction = "N"
    /\ fout.wind_exposed
    /\ BaseSeverity(fin.dist, fin.radius_km, fin.fire_intensity) = "high"
    /\ fout.severity = "critical"

\* points of the rule table
RulePoints(temp, humidity, wind) ==
      (IF temp > 35 THEN 3 ELSE IF temp > 28 THEN 2 ELSE IF temp > 20 THEN 1 ELSE 0)
    + (IF humidity < 20 THEN 3 ELSE IF humidity < 35 THEN 2 ELSE IF humidity < 50 THEN 1 ELSE 0)
    + (IF wind > 40 THEN 3 ELSE IF wind > 25 THEN 2 ELSE IF wind > 10 THEN 1 ELSE 0)

\* C15 as stated: the risk label is the rule table applied to the reported
\* temperature, humidity and wind speed, a default (0, 100, 0) replacing a
\* field only when the field is missing.
RiskLabelFollowsRuleTable ==
    fout.op = "risk" =>
        LET temp     == IF fin.w.temperature_c = None THEN 0 ELSE fin.w.temperature_c
            humidity == IF fin.w.humidity_percentage = None THEN 100
                        ELSE fin.w.humidity_percentage
            wind     == IF fin.w.wind_speed_kmh = None THEN 0 ELSE fin.w.wind_speed_kmh
            total    == RulePoints(temp, humidity, wind)
        IN  fout.result.fire_weather_risk
                = IF total >= 7 THEN "extreme"
                  ELSE IF total >= 5 THEN "high"
                  ELSE IF total >= 3 THEN "moderate"
                  ELSE "low"

\* no active route is blocked or restricted
NoBlockedRoute(routes) ==
    \A i \in 1..Len(routes) :
        ~(routes[i].is_active /\ routes[i].operational_status \in {"blocked", "restricted"})

\* C16: when no active route is blocked or restricted as the rerouting stage
\* runs, the stage returns blocked_routes = 0, alternative_routes_created = 0
\* and no alternatives, writes nothing and asks the Routing Service nothing.
NoBlockedRouteNoRerouting ==
    [][(pc = "reroute" /\ pc' = "distribution" /\ NoBlockedRoute(tx.routes)) =>
          /\ out'["reroute"].blocked_routes = 0
          /\ out'["reroute"].alternative_routes_created = 0
          /\ out'["reroute"].alternatives = <<>>
          /\ out'["reroute"].calls = {}
          /\ tx' = tx]_vars

\* the run impaired a route and blocked none: the rerouting stage returned zeros
C16Witness ==
    /\ pc = "distribution"
    /\ NoBlockedRoute(tx.routes)
    /\ out["disruptions"].disruptions_created >= 1
    /\ out["reroute"].blocked_routes = 0
    /\ out["reroute"].alternatives = <<>>

\* every row of repository a is a row of b, unchanged but for the
\* operational_status of a route
RowsKept(a, b) ==
    /\ IsPrefix(a.disruptions, b.disruptions)
    /\ IsPrefix(a.alerts, b.alerts)
    /\ IsPrefix(a.plans, b.plans)
    /\ Len(a.routes) <= Len(b.routes)
    /\ \A i \in 1..Len(a.routes) :
          b.routes[i] = [a.routes[i] EXCEPT
                            !.operational_status = b.routes[i].operational_status]

\* the routes of a that differ in b are active, operational in a, and touch
\* an affected region
OnlySelectedRoutesChanged(a, b, affected_ids) ==
    \A i \in 1..Len(a.routes) :
        b.routes[i] # a.routes[i] =>
            /\ a.routes[i].is_active
            /\ a.routes[i].operational_status = "operational"
            /\ \/ a.routes[i].origin_region_id \in affected_ids
               \/ a.routes[i].destination_region_id \in affected_ids

Incoming(region_id) ==
    SumSeq([k \in 1..Len(Entries) |->
              IF Entries[k].to_region_id = region_id
              THEN Entries[k].displaced_count ELSE 0])

\* people who stay in an affected region, 0 for a region that is not affected
Residual(region_id) ==
    LET hits == {k \in 1..Len(Zones) : Zones[k].region_id = region_id}
    IN  IF hits = {} THEN 0
        ELSE LET zone == Zones[CHOOSE k \in hits : TRUE]
             IN  (OrZero(zone.population) * RemainingMult(zone.severity)) \div 10

PlansOf(region_id) ==
    {k \in 1..Len(out["distribution"].plans) :
        out["distribution"].plans[k].region_id = region_id}

\* C18: the distribution stage creates at most one plan per region, and one
\* exactly for the regions with a positive population to serve; a region that
\* takes in displaced people is planned for those people only, also when it is
\* an affected zone with people staying.
OnePlanPerServedRegion ==
    Done("distribution") =>
        /\ out["distribution"].plans_created = Len(out["distribution"].plans)
        /\ \A r \in RegionIds :
              LET serve == IF Incoming(r) > 0 THEN Incoming(r) ELSE Residual(r)
              IN  /\ Cardinality(PlansOf(r)) = (IF serve > 0 THEN 1 ELSE 0)
                  /\ \A k \in PlansOf(r) :
                        out["distribution"].plans[k].population_covered = serve
                  /\ pc # "error" =>
                        Cardinality({k \in 1..Len(tx.plans) :
                                        /\ tx.plans[k].region_id = r
                                        /\ tx.plans[k].scenario = run
                                        /\ tx.plans[k].population_covered = serve})
                            = (IF serve > 0 THEN 1 ELSE 0)

\* an affected zone with people staying takes in displaced people: its one
\* plan covers the displaced people only
C18Witness ==
    /\ pc = "completed"
    /\ \E r \in AffectedIds(out["zones"]) :
          /\ Incoming(r) > 0
          /\ Residual(r) > 0
          /\ \E k \in PlansOf(r) :
                out["distribution"].plans[k].population_covered = Incoming(r)

\* sessions that committed after selecting the route
Writers(route_id) ==
    {s \in Sessions :
        /\ sess[s].pc = "done"
        /\ \E k \in 1..Len(sess[s].selected) : sess[s].selected[k] = route_id}

\* the status the session derives for the route from its own zones
DerivedStatus(s, route_id) ==
    StatusOfSeverity(DbSeverity(
        WorstSeverity(SeverityOf(sess[s].zones, InitRoutes[route_id].origin_region_id),
                      SeverityOf(sess[s].zones, InitRoutes[route_id].destination_region_id))))

\* C19: of two requests that run at the same time, each one that committed
\* has its own disruption row for every route it selected, also for a route
\* the other one selected and wrote in between; the status of a route is the
\* one derived by the request that committed last among those that selected it.
ConcurrentRunsBothDisrupt ==
    \A r \in 1..Len(InitRoutes) :
        /\ \A s \in Writers(r) :
              Cardinality({k \in 1..Len(db.disruptions) :
                              /\ db.disruptions[k].route_id = r
                              /\ db.disruptions[k].scenario = s}) = 1
        /\ Writers(r) # {} =>
              LET last == CHOOSE s \in Writers(r) :
                              \A u \in Writers(r) : sess[u].seq <= sess[s].seq
              IN  db.routes[r].operational_status = DerivedStatus(last, r)

\* both requests selected one route and committed; the route has two
\* disruption rows and the status of the later commit, which is the less
\* severe one: the first derived "blocked"
C19Witness ==
    /\ \A s \in Sessions : sess[s].pc = "done"
    /\ \E r \in 1..Len(InitRoutes) :
          /\ Writers(r) = Sessions
          /\ Cardinality({k \in 1..Len(db.disruptions) : db.disruptions[k].route_id = r}) = 2
          /\ \E first, last \in Sessions :
                /\ sess[first].seq < sess[last].seq
                /\ DerivedStatus(first, r) = "blocked"
                /\ DerivedStatus(last, r) = "impaired"
                /\ db.routes[r].operational_status = "impaired"

\* the elements of a sequence
Elements(seq) == {seq[k] : k \in 1..Len(seq)}

\* C20 as stated: with the request, the repository and the weather fixed, a
\* run under any other row order flags the same zones and produces the same
\* displacement entries, supply entries and alert levels (compared as sets,
\* so that the order of a list does not count).
RowOrderDoesNotMatter ==
    Done("alerts") =>
        \A o \in RowOrders :
            LET z == Step2FlagZones(req, out["weather"], o)
                d == Step4DisplacePopulation(req, z, o)
                u == Step5RecalculateSupply(z, d)
                a == Step6GenerateAlerts(db, run, z, u).result
            IN  /\ Elements(z.affected_zones) = Elements(Zones)
                /\ Elements(d.entries) = Elements(Entries)
                /\ d.total_displaced = out["displacement"].total_displaced
                /\ Elements(u.entries) = Elements(out["supply"].entries)
                /\ {<<a.alerts[k].region_id, a.alerts[k].level>> : k \in 1..Len(a.alerts)}
                      = {<<out["alerts"].alerts[k].region_id, out["alerts"].alerts[k].level>> :
                            k \in 1..Len(out["alerts"].alerts)}

(***************************************************************************)
(* C21: the zones of the zone flagging stage                               *)
(***************************************************************************)
\* the active regions within the radius of the request
ActiveInRadius(request) ==
    {i \in RegionIds : /\ Region[i].is_active
                       /\ Haversine(request.pos, Region[i].pos) <= request.radius_km}

\* the zones are exactly the active regions within the radius, one each, and
\* total_regions_scanned counts the active regions
ZonesAreTheActiveRegionsInRadius ==
    fout.op = "flag" =>
        LET z == fout.result.affected_zones
        IN  /\ {z[k].region_id : k \in 1..Len(z)} = ActiveInRadius(fin.request)
            /\ Len(z) = Cardinality(ActiveInRadius(fin.request))
            /\ fout.result.total_regions_scanned =
                   Cardinality({i \in RegionIds : Region[i].is_active})

ZoneRank(zones, region_id) ==
    LET hits == {k \in 1..Len(zones.affected_zones) :
                    zones.affected_zones[k].region_id = region_id}
    IN  IF hits = {} THEN 0
        ELSE LET sev == zones.affected_zones[CHOOSE k \in hits : TRUE].severity
             IN  CASE sev = "critical" -> 3
                   [] sev = "high"     -> 2
                   [] sev = "moderate" -> 1
                   [] OTHER            -> 0

\* severity, capacity reduction and route status for the rank of the worse
\* endpoint
DisruptionRule(rank) ==
    CASE rank = 3 -> <<"CRITICAL", 100, "blocked">>
      [] rank = 2 -> <<"HIGH", 70, "restricted">>
      [] OTHER    -> <<"MEDIUM", 40, "impaired">>

\* C22: the disruption stage creates exactly one disruption per route that is
\* active, operational and has an endpoint region in the affected set, and
\* none for any other route; severity, capacity reduction and the new route
\* status follow the worse of the two endpoint zone severities (critical:
\* CRITICAL/100/blocked, high: HIGH/70/restricted, moderate:
\* MEDIUM/40/impaired)
OneDisruptionPerTouchedOperationalRoute ==
    [][(pc = "disruptions" /\ pc' = "displacement") =>
          LET zones    == out["zones"]
              affected == {zones.affected_zones[k].region_id :
                              k \in 1..Len(zones.affected_zones)}
              new      == (Len(tx.disruptions) + 1)..Len(tx'.disruptions)
              Touched(i) ==
                  /\ tx.routes[i].is_active
                  /\ tx.routes[i].operational_status = "operational"
                  /\ \/ tx.routes[i].origin_region_id \in affected
                     \/ tx.routes[i].destination_region_id \in affected
          IN  /\ IsPrefix(tx.disruptions, tx'.disruptions)
              /\ \A i \in 1..Len(tx.routes) :
                    Cardinality({k \in new : tx'.disruptions[k].route_id = i})
                       = IF Touched(i) THEN 1 ELSE 0
              /\ \A k \in new :
                    LET d    == tx'.disruptions[k]
                        r    == tx.routes[d.route_id]
                        rank == Max(ZoneRank(zones, r.origin_region_id),
                                    ZoneRank(zones, r.destination_region_id))
                    IN  <<d.severity, d.capacity_reduction_percentage,
                          tx'.routes[d.route_id].operational_status>>
                           = DisruptionRule(rank)
              /\ out'["disruptions"].disruptions_created = Cardinality(new)]_vars

\* a run disrupted two routes with different severities, a route with an
\* unaffected origin took the severity of its destination, and an
\* operational route outside the affected set has no disruption
C22Witness ==
    /\ pc = "displacement"
    /\ LET recs  == out["disruptions"].disruptions
           zones == out["zones"]
       IN  /\ \E j, k \in 1..Len(recs) : recs[j].status # recs[k].status
           /\ \E k \in 1..Len(recs) :
                 /\ ZoneRank(zones, tx.routes[recs[k].route_id].origin_region_id) = 0
                 /\ recs[k].status # "impaired"
           /\ \E i \in 1..Len(tx.routes) :
                 /\ tx.routes[i].is_active
                 /\ tx.routes[i].operational_status = "operational"
                 /\ \A k \in 1..Len(recs) : recs[k].route_id # i

(***************************************************************************)
(* C23: the alternative routes of the rerouting stage                      *)
(***************************************************************************)
\* the active operational routes of a table between an ordered center pair
OperationalBetween(routes, oc, dc) ==
    {i \in 1..Len(routes) : /\ routes[i].origin_center_id = oc
                            /\ routes[i].destination_center_id = dc
                            /\ routes[i].is_active
                            /\ routes[i].operational_status = "operational"}

\* C23: every alternative route the rerouting stage creates is operational and
\* joins two distinct distribution centers that are active, operational and in
\* regions outside the affected set; a run creates no two alternatives for the
\* same ordered center pair, and none for a pair that already has an active
\* operational route
AlternativesJoinSafeCenters ==
    [][(pc = "reroute" /\ pc' = "distribution") =>
          LET zones    == out["zones"]
              affected == {zones.affected_zones[k].region_id :
                              k \in 1..Len(zones.affected_zones)}
              new      == (Len(tx.routes) + 1)..Len(tx'.routes)
              Safe(c)  == /\ c \in CenterIds
                          /\ Center[c].is_active
                          /\ Center[c].operational_status = "operational"
                          /\ Center[c].region_id \notin affected
          IN  /\ out'["reroute"].alternative_routes_created = Cardinality(new)
              /\ \A i \in new :
                    LET r == tx'.routes[i]
                    IN  /\ r.operational_status = "operational"
                        /\ r.origin_center_id # r.destination_center_id
                        /\ Safe(r.origin_center_id)
                        /\ Safe(r.destination_center_id)
                        /\ OperationalBetween(tx.routes, r.origin_center_id,
                                              r.destination_center_id) = {}
              /\ \A i, j \in new :
                    i # j => <<tx'.routes[i].origin_center_id,
                               tx'.routes[i].destination_center_id>>
                           # <<tx'.routes[j].origin_center_id,
                               tx'.routes[j].destination_center_id>>]_vars

\* a rerouting stage created an alternative route while it found more blocked
\* routes than it created alternatives
C23Witness ==
    /\ pc = "distribution"
    /\ out["reroute"].alternative_routes_created >= 1
    /\ out["reroute"].blocked_routes > out["reroute"].alternative_routes_created
    /\ out["reroute"].failed = {}

(***************************************************************************)
(* C24: the estimated days of supply                                       *)
(***************************************************************************)
\* C24: the estimated days of supply follow the three-branch rule for every
\* latest inventory row: with a positive consumption rate, quantity_tonnes /
\* (rate * demand_multiplier), null when the adjusted rate is 0; otherwise,
\* with a recorded days_of_supply (any value >= 0), days_of_supply /
\* demand_multiplier, null when the multiplier is 0; otherwise null
EstimatedDaysFollowThreeBranchRule ==
    fout.op = "days" =>
        LET inv == fin.inv
            num == fin.mult_num
            den == fin.mult_den
        IN  fout.estimated_days_of_supply =
               IF inv.present /\ inv.consumption_rate # None /\ inv.consumption_rate > 0
               THEN IF inv.consumption_rate * num > 0
                    THEN RoundDiv(10 * inv.quantity_tonnes * den, inv.consumption_rate * num)
                    ELSE None
               ELSE IF inv.present /\ inv.days_of_supply # None /\ inv.days_of_supply >= 0
               THEN IF num > 0
                    THEN RoundDiv(10 * inv.days_of_supply * den, num)
                    ELSE None
               ELSE None

(***************************************************************************)
(* C25: receivers of the displaced people                                  *)
(***************************************************************************)
\* C25: in every run, the fallback to the 3 farthest affected zones included,
\* no displacement entry has to_region_id equal to its from_region_id
NoZoneReceivesItsOwnDisplaced ==
    Done("displacement") =>
        \A k \in 1..Len(Entries) : Entries[k].to_region_id # Entries[k].from_region_id

(***************************************************************************)
(* C26: routes of the affected regions after a run                         *)
(***************************************************************************)
\* C26: when a run completes, no active route with an origin or destination
\* region in the affected set of the run is operational, the alternative
\* routes the run created included
NoOperationalRouteIntoAffectedRegions ==
    pc = "completed" =>
        LET affected == {Zones[k].region_id : k \in 1..Len(Zones)}
        IN  \A i \in 1..Len(db.routes) :
               (/\ db.routes[i].is_active
                /\ \/ db.routes[i].origin_region_id \in affected
                   \/ db.routes[i].destination_region_id \in affected)
               => db.routes[i].operational_status # "operational"

\* a completed run that disrupted a route of a moderate zone and created an
\* alternative route
C26Witness ==
    /\ pc = "completed"
    /\ out["reroute"].alternative_routes_created >= 1
    /\ \E k \in 1..Len(out["disruptions"].disruptions) :
          out["disruptions"].disruptions[k].severity = "moderate"

(***************************************************************************)
(* C27: the rerouting stage sees the status changes of the disruption      *)
(* stage                                                                   *)
(***************************************************************************)
\* the routes the disruption stage of the run set to blocked or restricted
SetBlockedOrRestricted ==
    LET recs == out["disruptions"].disruptions
    IN  {recs[k].route_id :
            k \in {j \in 1..Len(recs) : recs[j].status \in {"blocked", "restricted"}}}

\* C27: every route the disruption stage of a run set to blocked or
\* restricted, the last one it processed included, is found by the rerouting
\* stage of the run: the status change of the last route stays pending in the
\* session after the disruption stage, the flush of the alert stage sends it
\* before the rerouting query, and blocked_routes is at least the number of
\* the run's blocked or restricted disruptions
ReroutingSeesDisruptedRoutes ==
    /\ [](pc \in {"displacement", "supply", "alerts"} =>
            LET recs == out["disruptions"].disruptions
            IN  tx.unflushed = IF recs = <<>> THEN {}
                               ELSE {<<recs[Len(recs)].route_id, "operational">>})
    /\ [](pc = "reroute" =>
            /\ tx.unflushed = {}
            /\ \A r \in SetBlockedOrRestricted :
                  \E k \in 1..Len(BlockedRoutes(FlushedRoutes(tx), order)) :
                     BlockedRoutes(FlushedRoutes(tx), order)[k] = r)
    /\ [][(pc = "reroute" /\ pc' = "distribution") =>
             out'["reroute"].blocked_routes >= Cardinality(SetBlockedOrRestricted)]_vars

\* the rerouting stage returned in a run whose disruption stage set the last
\* route it processed to blocked or restricted
C27Witness ==
    /\ pc = "distribution"
    /\ LET recs == out["disruptions"].disruptions
       IN  /\ Len(recs) >= 2
           /\ recs[Len(recs)].status \in {"blocked", "restricted"}
           /\ out["reroute"].blocked_routes >= Cardinality(SetBlockedOrRestricted)

(***************************************************************************)
(* C28: one operational route per center pair                              *)
(***************************************************************************)
\* a routes table has at most one active operational route per ordered pair
\* of centers
OnePerCenterPair(routes) ==
    \A oc, dc \in CenterIds : Cardinality(OperationalBetween(routes, oc, dc)) <= 1

\* C28: the repository starts with at most one active operational route per
\* ordered center pair, and after any sequence of runs, whatever the requests
\* and the routing outcomes, it still has at most one, in the repository and
\* in the session of a run; the existing-route lookup never finds two rows
AtMostOneOperationalRoutePerCenterPair ==
    /\ OnePerCenterPair(InitRoutes)
    /\ OnePerCenterPair(db.routes)
    /\ OnePerCenterPair(tx.routes)
    /\ OnePerCenterPair(FlushedRoutes(tx))
    /\ raised # "MultipleResultsFound"

\* the rerouting stage of a second run looked up a center pair for which an
\* earlier run had created the alternative route, and created none
C28Witness ==
    /\ pc = "distribution"
    /\ run = 2
    /\ out["reroute"].alternative_routes_created = 0
    /\ LET affected == {Zones[k].region_id : k \in 1..Len(Zones)}
           centers  == SafeCenters(affected, order)
       IN  \E i \in 1..Len(tx.routes) :
              /\ tx.routes[i].is_active
              /\ tx.routes[i].operational_status \in {"blocked", "restricted"}
              /\ LET oc == FindNearestSafeCenter(tx.routes[i].origin_region_id,
                                                 centers, affected)
                     dc == FindNearestSafeCenter(tx.routes[i].destination_region_id,
                                                 centers, affected)
                 IN  /\ oc # None /\ dc # None /\ oc # dc
                     /\ \E j \in OperationalBetween(tx.routes, oc, dc) :
                           j > Len(InitRoutes)

(***************************************************************************)
(* C29: the writes of a run are committed together or not at all           *)
(***************************************************************************)
\* the rows the stages of the current run reported are in the table t
WritesOfRunIn(t) ==
    /\ \A k \in 1..Len(out["disruptions"].disruptions) :
          LET rec == out["disruptions"].disruptions[k]
          IN  /\ rec.disruption_id \in 1..Len(t.disruptions)
              /\ t.disruptions[rec.disruption_id].scenario = run
              /\ t.routes[rec.route_id].operational_status = rec.status
    /\ \A k \in 1..Len(out["alerts"].alerts) :
          LET rec == out["alerts"].alerts[k]
          IN  /\ rec.alert_id \in 1..Len(t.alerts)
              /\ t.alerts[rec.alert_id].scenario = run
    /\ \A k \in 1..Len(out["reroute"].alternatives) :
          out["reroute"].alternatives[k].route_id \in 1..Len(t.routes)
    /\ \A k \in 1..Len(out["distribution"].plans) :
          LET rec == out["distribution"].plans[k]
          IN  /\ rec.plan_id \in 1..Len(t.plans)
              /\ t.plans[rec.plan_id].scenario = run

\* C29: the repository changes only when a request ends successfully, and
\* then it takes all writes of the run at once; while a run is under way and
\* after it failed, whichever stage failed and whatever the earlier stages
\* wrote, the repository holds no row of the run and the failed session is
\* rolled back to the repository
RunWritesAreAllOrNothing ==
    /\ [](pc \notin {"idle", "completed", "rejected"} =>
            /\ RowsOfScenario(db, run) = {}
            /\ db.unflushed = {})
    /\ [](pc = "error" => tx = db)
    /\ [](pc = "completed" => (db = tx /\ WritesOfRunIn(db)))
    /\ [][db' # db => (pc = "assemble" /\ pc' = "completed")]_vars
    /\ [][pc' = "error" => (db' = db /\ tx' = db)]_vars

\* the distribution stage failed after the earlier stages had written
\* disruptions, status changes, alerts and an alternative route, and the
\* repository is as it was before the first request
C29Witness ==
    /\ pc = "error"
    /\ run = 1
    /\ Len(log) = 8
    /\ out["disruptions"].disruptions_created >= 1
    /\ out["alerts"].alerts_generated >= 1
    /\ out["reroute"].alternative_routes_created >= 1
    /\ db = InitDb
    /\ tx = InitDb

(***************************************************************************)
(* C30: the supply recalculation conserves the population                  *)
(***************************************************************************)
\* net change of the population of a region by the entries of the run
NetDelta(region_id) == Incoming(region_id) - SentFrom(Entries, region_id)

\* C30: the net population deltas of a run sum to zero, every zone displaces
\* at most its population, so no effective population is clamped at 0, and
\* the effective populations of the supply entries sum to their original
\* populations
SupplyConservesPopulation ==
    Done("supply") =>
        LET s == out["supply"].entries
        IN  /\ SumSeq([k \in 1..Len(SetToSeqAsc(RegionIds)) |->
                         NetDelta(SetToSeqAsc(RegionIds)[k])]) = 0
            /\ \A k \in 1..Len(Zones) :
                  SentFrom(Entries, Zones[k].region_id) <= OrZero(Zones[k].population)
            /\ \A r \in RegionIds :
                  NetDelta(r) # 0 => \E k \in 1..Len(s) : s[k].region_id = r
            /\ \A k \in 1..Len(s) :
                  /\ s[k].original_population = OrZero(Region[s[k].region_id].population)
                  /\ s[k].original_population + NetDelta(s[k].region_id) >= 0
                  /\ s[k].effective_population =
                        s[k].original_population + NetDelta(s[k].region_id)
            /\ SumSeq([k \in 1..Len(s) |-> s[k].effective_population])
                  = SumSeq([k \in 1..Len(s) |-> s[k].original_population])

\* a supply recalculation after a displacement that emptied a zone and sent
\* people into a region without a recorded population
C30Witness ==
    /\ Done("supply")
    /\ LET s == out["supply"].entries
       IN  /\ \E k \in 1..Len(s) :
                 s[k].original_population > 0 /\ s[k].effective_population = 0
           /\ \E k \in 1..Len(s) :
                 s[k].original_population = 0 /\ s[k].effective_population > 0

====
